---- MODULE Spec2Model ----
(***************************************************************************)
(* The incremental build engine of colade (internal/sitegen): discovery,   *)
(* the .colade-cache change-detection cache, the choice between the        *)
(* Incremental and the Full strategy, per-file processing and the two      *)
(* orphan cleanups.  One BuildSite call is a sequence of steps (pc); the   *)
(* input tree, the output tree and the cache file are the file system the  *)
(* builds share, and the environment edits them between builds.            *)
(***************************************************************************)
EXTENDS Integers, Sequences, FiniteSets, TLC

\* ------------------------------------------------------------------ bounds
MaxTime == 2      \* modification times are 1..MaxTime (unix seconds)
MaxBuilds == 2    \* BuildSite calls in one behaviour
MaxEdits == 2     \* environment edits in one behaviour
MaxLimit == 3     \* the largest --rss-max-items tried

\* ------------------------------------------------------------------- paths
\* A name is split at its final dot, as filepath.Ext does: name = stem ++ ext,
\* ext begins with "." (or is empty).  A relative path is the names of the
\* directories above the file, outermost first, and the file's name.
Name(stem, ext) == [stem |-> stem, ext |-> ext]

Path(stem, ext) == [dir |-> <<>>, stem |-> stem, ext |-> ext]

\* filepath.Join(d, p) for a directory name d.
In(d, p) == [p EXCEPT !.dir = <<d>> \o @]

Ext(p) == p.ext

\* f[:len(f)-len(filepath.Ext(f))] + ".html"
HtmlPath(p) == [p EXCEPT !.ext = ".html"]

aMarkdown == Path("a", ".markdown")
aMd == Path("a", ".md")
bTxt == Path("b", ".txt")
aHtml == Path("a", ".html")
FeedPath == Path("feed", ".xml")
CachePath == Path("", ".colade-cache")
HiddenOut == Path("", ".htaccess")

\* Further paths of a larger tree: a document below a hidden directory
\* (.git/x.md), a hidden document (.md), an upper-case extension (a.MD), a
\* document in a subdirectory (d/c.md), and a file below a hidden directory
\* of the output (.git/config), and an asset named like the feed (feed.xml).
dotGit == Name("", ".git")
gitXMd == In(dotGit, Path("x", ".md"))
dotMd == Path("", ".md")
aUpperMD == Path("a", ".MD")
dCMd == In(Name("d", ""), Path("c", ".md"))
feedXml == Path("feed", ".xml")
gitConfig == In(dotGit, Path("config", ""))

\* Every input file a behaviour may hold, in filepath.Walk's lexical order
\* (".git/x.md" < ".md" < "a.MD" < "a.markdown" < "a.md" < "b.txt" < "d/c.md"
\* < "feed.xml").
WalkOrder == <<gitXMd, dotMd, aUpperMD, aMarkdown, aMd, bTxt, dCMd, feedXml>>

TreePaths == {WalkOrder[i] : i \in 1..Len(WalkOrder)}

\* The input files the environment edits between builds.
InPaths == {aMarkdown, aMd, bTxt}

\* The regular files of the output directory, the cache file apart, that the
\* environment tampers with between builds.
OutWalkOrder == <<HiddenOut, aHtml, bTxt, FeedPath>>

OutPaths == {OutWalkOrder[i] : i \in 1..Len(OutWalkOrder)}

\* Every regular file the output directory may hold besides the cache file.
OutTree == OutPaths \cup {gitConfig, aUpperMD} \cup {HtmlPath(p) : p \in {gitXMd, dotMd, dCMd}}

\* strings.HasPrefix(name, "."): stems never begin with a dot, so the name
\* begins with one exactly when the stem is empty.
HasDotPrefix(n) == n.stem = "" /\ n.ext # ""

\* isHiddenFile: some component of the path begins with a dot.
isHiddenFileDirsOnly(p) == \E i \in 1..Len(p.dir) : HasDotPrefix(p.dir[i])

isHiddenFile(p) == HasDotPrefix(p) \/ \E i \in 1..Len(p.dir) : HasDotPrefix(p.dir[i])

classifyFileAnyCase(p) ==
  IF Ext(p) \in {".md", ".markdown", ".MD"} THEN "markdown" ELSE "asset"

classifyFile(p) == IF Ext(p) \in {".md", ".markdown"} THEN "markdown" ELSE "asset"

\* ------------------------------------------------------------------- files
\* File contents are opaque values.
Data == {"v1", "v2"}

NoFile == [kind |-> "none", data |-> "", mtime |-> 0]

InFile(m, d) == [kind |-> "file", data |-> d, mtime |-> m]

Exists(f) == f.kind # "none"

InFiles == {InFile(m, d) : m \in 1..MaxTime, d \in Data}

\* Output contents: the rendering of a document, the copy of an asset, the
\* feed, or a file somebody else put into the output directory.
\* The page template as a build finds it (templates/default.html beside the
\* working directory, or the embedded one): one of TemplateStates below.
VARIABLE template

\* md.Convert: the HTML of a document's content, still without a page
\* around it.
Converted(f) == [kind |-> "body", data |-> f.data, mtime |-> 0]

\* What can become of the template: it is resolved, parsed and executed,
\* or it cannot be resolved (no such file, on disk or embedded), cannot be
\* parsed, or its execution fails.
TemplateStates == {"ok", "unresolved", "unparsable", "failing"}

\* tmpl.Execute on a template that works: the page around the content.
Page(html) == [html EXCEPT !.kind = "html"]

\* renderHTMLPage with "return buf.Bytes()" where Execute failed: what the
\* template had written before it failed, here nothing.
renderHTMLPageKeepsBuffer(html, t) ==
  IF t = "ok" THEN Page(html)
  ELSE IF t = "failing" THEN [html EXCEPT !.data = ""] ELSE html

\* if err != nil { return html } after template.ParseFiles / ParseFS, and
\* after tmpl.Execute; return buf.Bytes() otherwise.  No error is returned.
renderHTMLPage(html, t) == IF t = "ok" THEN Page(html) ELSE html

\* What ProcessMarkdownFile writes for a document.
Rendered(f) == renderHTMLPage(Converted(f), template)

Copied(f) == [kind |-> "copy", data |-> f.data, mtime |-> 0]

\* The feed is modelled by the documents it lists.
Feed(items) == [kind |-> "feed", data |-> items, mtime |-> 0]

Foreign == [kind |-> "foreign", data |-> "", mtime |-> 0]

EmptyOut == [q \in OutTree |-> NoFile]

\* ------------------------------------------------------------------- cache
\* type cacheFile struct { Version int; Files map[string]cacheFileEntry }
NoEntries == [p \in {} |-> 0]

cacheFileEntry(m, o) == [Mtime |-> m, Output |-> o]

CacheJSON(v, files) == [kind |-> "json", Version |-> v, Files |-> files]

\* The cache file on disk when it is no decodable cache: missing, not
\* readable (permissions, a directory), or not JSON.
BrokenCache(k) == [kind |-> k, Version |-> 0, Files |-> NoEntries]

AbsentCache == BrokenCache("absent")

BrokenKinds == {"absent", "unreadable", "garbage"}

\* newCache(): Version: 1 and no entries.
newCacheUnversioned == CacheJSON(0, NoEntries)

newCache == CacheJSON(1, NoEntries)

\* loadCache: os.Open fails on a missing or unreadable file, Decode on garbage.
loadCache(cf) == [ok |-> cf.kind = "json", cache |-> IF cf.kind = "json" THEN cf ELSE newCache]

Put(files, p, e) == [x \in (DOMAIN files) \cup {p} |-> IF x = p THEN e ELSE files[x]]

\* ----------------------------------------------------------------- options
\* --rss-max-items defaults to 20; rss stands for a non-empty --rss-url.
DefaultMaxItems == 20

OptsWith(limits) == [noIncremental : BOOLEAN, keepOrphaned : BOOLEAN, rss : BOOLEAN,
                     rssMaxItems : limits]

Opts == OptsWith({DefaultMaxItems})

NoOpts == [noIncremental |-> FALSE, keepOrphaned |-> FALSE, rss |-> FALSE,
           rssMaxItems |-> DefaultMaxItems]

\* --------------------------------------------------------------- discovery
FileSet(md, as) == [MarkdownFiles |-> md, AssetFiles |-> as]

NoFileSet == FileSet(<<>>, <<>>)

\* The directory that is the i-th component of p, as a relative path.
DirPath(p, i) == [dir |-> SubSeq(p.dir, 1, i - 1), stem |-> p.dir[i].stem, ext |-> p.dir[i].ext]

\* filepath.SkipDir for a hidden directory: the walk never enters it.
WalkVisits(p) == \A i \in 1..Len(p.dir) : ~isHiddenFile(DirPath(p, i))

IsDoc(in, p) ==
  Exists(in[p]) /\ WalkVisits(p) /\ ~isHiddenFile(p) /\ classifyFile(p) = "markdown"

IsAsset(in, p) ==
  Exists(in[p]) /\ WalkVisits(p) /\ ~isHiddenFile(p) /\ classifyFile(p) = "asset"

DiscoverFiles(in) ==
  LET md(p) == IsDoc(in, p)
      as(p) == IsAsset(in, p)
  IN FileSet(SelectSeq(WalkOrder, md), SelectSeq(WalkOrder, as))

Range(s) == {s[i] : i \in 1..Len(s)}

Discovered(fs) == Range(fs.MarkdownFiles) \cup Range(fs.AssetFiles)

\* -------------------------------------------------------------- processing
Write(o, q, c) == [x \in DOMAIN o |-> IF x = q THEN c ELSE o[x]]

\* ProcessMarkdownFile: dst is relPath with its extension replaced by .html;
\* the rendered page is written there.
MarkdownDst(p) == HtmlPath(p)

ProcessMarkdownFile(o, in, p) == Write(o, MarkdownDst(p), Rendered(in[p]))

\* ProcessAssetFile: dst is relPath; the file is copied there.
AssetDst(p) == p

ProcessAssetFile(o, in, p) == Write(o, AssetDst(p), Copied(in[p]))

\* getMtime: the modification time, 0 when the file cannot be stat'ed.
getMtime(in, p) == IF Exists(in[p]) THEN in[p].mtime ELSE 0

\* prev, ok := ib.cache.Files[relPath]; if !ok || prev.Mtime != mtime
NeedsProcessingNewerOnly(cache, p, mtime) ==
  p \notin DOMAIN cache.Files \/ cache.Files[p].Mtime < mtime

NeedsProcessingAlways(cache, p, mtime) == TRUE

NeedsProcessing(cache, p, mtime) ==
  p \notin DOMAIN cache.Files \/ cache.Files[p].Mtime # mtime

\* ----------------------------------------------------------------- cleanup
\* IncrementalBuilder.CleanupRemovedFiles: os.Remove of the recorded output
\* of every cache entry whose path was not seen in this run.
RemovedOutputsAndCache(cache, seenSet) ==
  {cache.Files[p].Output : p \in (DOMAIN cache.Files) \ seenSet} \cup {CachePath}

RemovedOutputs(cache, seenSet) ==
  {cache.Files[p].Output : p \in (DOMAIN cache.Files) \ seenSet}

\* os.Remove(path), its error dropped: a file whose removal fails (held) and
\* a path that holds no file stay as they are, the others are gone.
RemoveAll(o, targets, held) ==
  [q \in DOMAIN o |-> IF q \in targets \ held THEN NoFile ELSE o[q]]

\* The removals that return an error: of a file that cannot be removed, and
\* of a path that holds no file.
RemoveFailures(o, targets, held) == {q \in targets : q \in held \/ ~Exists(o[q])}

\* Neither cleanup looks at the error of os.Remove, and the walk callback
\* returns nil on every error: a cleanup reports no failure.
CleanupFailsOnRemoveError(failures) == failures # {}

CleanupFails(failures) == FALSE

CleanupRemovedFiles(o, cache, seenSet, held) ==
  RemoveAll(o, RemovedOutputs(cache, seenSet), held)

\* OutputCleaner.isExpectedFile
isExpectedFileNoFeedRule(q, fs, rss) ==
  \/ \E i \in 1..Len(fs.MarkdownFiles) : q = HtmlPath(fs.MarkdownFiles[i])
  \/ \E i \in 1..Len(fs.AssetFiles) : q = fs.AssetFiles[i]

isExpectedFile(q, fs, rss) ==
  \/ \E i \in 1..Len(fs.MarkdownFiles) : q = HtmlPath(fs.MarkdownFiles[i])
  \/ \E i \in 1..Len(fs.AssetFiles) : q = fs.AssetFiles[i]
  \/ (q = FeedPath /\ rss)

\* The walk skips .colade-cache and every name beginning with a dot, and
\* with filepath.SkipDir never enters a directory it skips.
CleanupSkips(q) == q = CachePath \/ HasDotPrefix(q)

CleanupVisitsAll(q) == TRUE

CleanupVisits(q) == \A i \in 1..Len(q.dir) : ~CleanupSkips(DirPath(q, i))

IsOrphan(q, fs, rss) ==
  CleanupVisits(q) /\ ~CleanupSkips(q) /\ ~isExpectedFile(q, fs, rss)

\* OutputCleaner.CleanupOrphanedFiles
Orphans(o, fs, rss) == {q \in DOMAIN o : Exists(o[q]) /\ IsOrphan(q, fs, rss)}

CleanupOrphanedFiles(o, fs, rss, held) == RemoveAll(o, Orphans(o, fs, rss), held)

\* The cleanups run unless keep-orphaned is set.
ShouldCleanupAlways(keepOrphaned) == TRUE

ShouldCleanup(keepOrphaned) == ~keepOrphaned

\* -------------------------------------------------------------------- feed
\* RSSGenerator.Generate: nothing without a base URL or without items,
\* otherwise feed.xml is (re)written with the newest items, at most maxItems
\* of them when maxItems is positive.
FeedItems(fs, in) == {p \in Range(fs.MarkdownFiles) : Exists(in[p])}

WritesFeed(fs, in, rss) == rss /\ FeedItems(fs, in) # {}

\* collectItems: one item for every document that can be read, in the order
\* of the FileSet.
collectItems(fs, in) ==
  LET readable(p) == Exists(in[p]) IN SelectSeq(fs.MarkdownFiles, readable)

\* sort.Slice with ti.After(tj): newest first.  On the short slices here it
\* is an insertion sort, so documents of one modification time keep their
\* order.
RECURSIVE InsertNewest(_, _, _)
InsertNewest(s, p, in) ==
  IF s = <<>> THEN <<p>>
  ELSE IF in[p].mtime > in[s[Len(s)]].mtime
       THEN Append(InsertNewest(SubSeq(s, 1, Len(s) - 1), p, in), s[Len(s)])
       ELSE Append(s, p)

RECURSIVE SortNewest(_, _)
SortNewest(s, in) ==
  IF s = <<>> THEN <<>>
  ELSE InsertNewest(SortNewest(SubSeq(s, 1, Len(s) - 1), in), s[Len(s)], in)

\* if maxItems > 0 && len(items) > maxItems { items = items[:maxItems] }
LimitItemsAlways(items, maxItems) ==
  IF Len(items) > maxItems THEN SubSeq(items, 1, maxItems) ELSE items

LimitItems(items, maxItems) ==
  IF maxItems > 0 /\ Len(items) > maxItems THEN SubSeq(items, 1, maxItems) ELSE items

Generate(o, fs, in, rss, maxItems) ==
  IF WritesFeed(fs, in, rss)
  THEN Write(o, FeedPath, Feed(LimitItems(SortNewest(collectItems(fs, in), in), maxItems)))
  ELSE o

\* ------------------------------------------------------------ cache create
\* CacheManager.CreateCacheFromFileSet
CreateCacheDocsOnly(fs, in) ==
  CacheJSON(1, [p \in Range(fs.MarkdownFiles) |-> cacheFileEntry(getMtime(in, p), HtmlPath(p))])

CreateCacheKeepsExt(fs, in) ==
  CacheJSON(1, [p \in Discovered(fs) |-> cacheFileEntry(getMtime(in, p), p)])

CreateCacheFromFileSet(fs, in) ==
  CacheJSON(1, [p \in Discovered(fs) |->
                  IF p \in Range(fs.MarkdownFiles)
                  THEN cacheFileEntry(getMtime(in, p), HtmlPath(p))
                  ELSE cacheFileEntry(getMtime(in, p), p)])

\* if err != nil || cache.Version != 1  (tryIncrementalBuild)
IsUsableAnyVersion(loaded) == loaded.ok

IsUsable(loaded) == loaded.ok /\ loaded.cache.Version = 1

\* ------------------------------------------------- a build as one function
\* The output path the build derives for a discovered input.
OutputOf(p) == IF classifyFile(p) = "markdown" THEN MarkdownDst(p) ELSE AssetDst(p)

RECURSIVE CopyAssets(_, _, _)
CopyAssets(o, in, files) ==
  IF files = <<>> THEN o
  ELSE CopyAssets(ProcessAssetFile(o, in, Head(files)), in, Tail(files))

RECURSIVE RenderDocs(_, _, _)
RenderDocs(o, in, files) ==
  IF files = <<>> THEN o
  ELSE RenderDocs(ProcessMarkdownFile(o, in, Head(files)), in, Tail(files))

\* The output tree performFullBuild leaves when nothing fails, started on
\* the output tree o: assets, documents, feed, then the orphan cleanup.
FullBuildOutput(o, fs, in, options) ==
  LET copied == CopyAssets(o, in, fs.AssetFiles)
      rendered == RenderDocs(copied, in, fs.MarkdownFiles)
      fed == Generate(rendered, fs, in, options.rss, options.rssMaxItems)
  IN IF ShouldCleanup(options.keepOrphaned)
     THEN CleanupOrphanedFiles(fed, fs, options.rss, {})
     ELSE fed

RECURSIVE RenderChanged(_, _, _, _)
RenderChanged(o, c, in, files) ==
  IF files = <<>> THEN o
  ELSE LET p == Head(files)
           o2 == IF NeedsProcessing(c, p, getMtime(in, p))
                 THEN ProcessMarkdownFile(o, in, p) ELSE o
       IN RenderChanged(o2, c, in, Tail(files))

RECURSIVE CopyChanged(_, _, _, _)
CopyChanged(o, c, in, files) ==
  IF files = <<>> THEN o
  ELSE LET p == Head(files)
           o2 == IF NeedsProcessing(c, p, getMtime(in, p))
                 THEN ProcessAssetFile(o, in, p) ELSE o
       IN CopyChanged(o2, c, in, Tail(files))

\* The output tree tryIncrementalBuild leaves when nothing fails, started on
\* the output tree o with the loaded cache c: changed documents, changed
\* assets, the removal of vanished entries' outputs, then the feed.
IncrementalBuildOutput(o, c, fs, in, options) ==
  LET rendered == RenderChanged(o, c, in, fs.MarkdownFiles)
      copied == CopyChanged(rendered, c, in, fs.AssetFiles)
      cleaned == IF ShouldCleanup(options.keepOrphaned)
                 THEN CleanupRemovedFiles(copied, c, Discovered(fs), {})
                 ELSE copied
  IN Generate(cleaned, fs, in, options.rss, options.rssMaxItems)

\* ------------------------------------------------------------------ errors
\* No path at all.
NoPath == Path("", "")

\* An error as the caller of BuildSite reads it: the text of the message
\* the code formats and the input-relative path the message names (NoPath
\* when it names none; the operating system's error that %w appends speaks
\* of the joined source or destination path, never of the relative one).
Error(text, path) == [text |-> text, path |-> path]

NoError == Error("", NoPath)

\* The ways ProcessMarkdownFile fails: parseMarkdownFile, md.Convert,
\* os.MkdirAll and os.WriteFile.
MarkdownFailures == {"read", "convert", "mkdir", "write"}

MarkdownError(cause, relPath) ==
  CASE cause = "read" -> Error("failed to read markdown file", relPath)
    [] cause = "convert" -> Error("failed to convert markdown", relPath)
    [] cause = "mkdir" -> Error("failed to create output dir for", relPath)
    [] cause = "write" -> Error("failed to write HTML file", relPath)

\* if err := ProcessAssetFile(...); err != nil {
\*     return fmt.Errorf("failed to copy asset '%s': %w", relPath, err) }
\* in the loops of both builders; ProcessAssetFile itself returns what
\* copyFilePreserveDirs returned.
AssetErrorUnwrapped(relPath) == Error("copy", NoPath)

AssetError(relPath) == Error("failed to copy asset", relPath)

\* ------------------------------------------------------------------- state
VARIABLES
  inputDir,    \* what the input path is: "dir", "missing" or "file"
  outputDir,   \* the output path: "dir", "absent", or "blocked" (cannot be made)
  input,       \* the input tree: TreePaths -> file
  out,         \* the output tree without the cache file: OutTree -> file
  cacheFile,   \* <output>/.colade-cache as it is on disk
  pc,          \* where the running BuildSite call is ("idle": none running)
  opts,        \* the options of the running call
  fileSet,     \* what DiscoverFiles returned to it
  strategy,    \* "Incremental" or "Full" once chosen
  cache,       \* IncrementalBuilder.cache, the loaded cache
  ibNewCache,  \* IncrementalBuilder.newCache
  seen,        \* IncrementalBuilder.seen
  idx,         \* position of the running loop over files
  err,         \* what the call returns: "none" or the failing operation
  errMsg,      \* the error the call returns: its message and the path it names
  consulted,   \* loadCache was called by this build
  processed,   \* inputs rendered or copied by this build
  removed,     \* output files this build deleted
  pre,         \* output directory, tree and cache file as the build found them
  hist,        \* how the previous build ended, kept while a build can follow
  repeat,      \* this build repeats a successful build, nothing changed since
  chained,     \* this build continues a chain begun from an empty output
  builds,
  edits,
  stuck,       \* output paths on which os.Remove fails
  sizeOut,     \* the buffer of the channel of advisory results
  tasks,       \* the advisory goroutines, by the index of their document
  printed      \* the results the drain loop has received, in order

vars == <<inputDir, outputDir, input, out, cacheFile, pc, opts, fileSet, strategy, cache, ibNewCache,
          seen, idx, err, errMsg, consulted, processed, removed, pre, hist, repeat,
          chained, builds, edits, stuck, template, sizeOut, tasks, printed>>

advVars == <<sizeOut, tasks, printed>>

fsVars == <<input, out, cacheFile>>

dirVars == <<inputDir, outputDir>>

builderVars == <<cache, ibNewCache, seen>>

callVars == <<opts, fileSet, pre, repeat, chained, builds>>

NoHist == [quiet |-> FALSE, opts |-> NoOpts, clean |-> FALSE, rss |-> FALSE,
           failed |-> FALSE, did |-> {}, want |-> [out |-> EmptyOut, cache |-> AbsentCache]]

NoInput == [p \in TreePaths |-> NoFile]

NoPre == [out |-> EmptyOut, cache |-> AbsentCache, dir |-> "dir"]

NoTasks == [i \in {} |-> 0]

\* No advisory goroutine has been started and nothing was sent.
NoAdvisories == sizeOut = <<>> /\ tasks = NoTasks /\ printed = <<>>

\* The first call finds an input tree of new files, or no input directory,
\* and no output yet: the output directory is empty, absent, or cannot be
\* created.
Init ==
  /\ template = "ok"
  /\ inputDir \in {"dir", "missing", "file"}
  /\ outputDir \in {"dir", "absent", "blocked"}
  /\ input \in {in \in [TreePaths -> {NoFile, InFile(1, "v1")}] :
                   /\ \A p \in TreePaths \ InPaths : in[p] = NoFile
                   /\ inputDir # "dir" => in = NoInput}
  /\ out = EmptyOut
  /\ cacheFile = AbsentCache
  /\ pc = "idle"
  /\ opts = NoOpts
  /\ fileSet = NoFileSet
  /\ strategy = "none"
  /\ cache = newCache
  /\ ibNewCache = newCache
  /\ seen = {}
  /\ idx = 1
  /\ err = "none"
  /\ errMsg = NoError
  /\ consulted = FALSE
  /\ processed = {}
  /\ removed = {}
  /\ pre = NoPre
  /\ hist = NoHist
  /\ repeat = FALSE
  /\ chained = FALSE
  /\ builds = 0
  /\ edits = 0
  /\ stuck = {}
  /\ NoAdvisories

\* ------------------------------------------------------------- environment
\* Between builds the user edits the input tree, and the output directory
\* may be tampered with.
Idle == pc = "idle" /\ edits < MaxEdits

EnvStep(keepsChain) ==
  /\ edits' = edits + 1
  /\ hist' = IF hist.clean /\ keepsChain
             THEN [NoHist EXCEPT !.clean = TRUE, !.rss = hist.rss]
             ELSE NoHist
  /\ UNCHANGED <<pc, opts, fileSet, strategy, cache, ibNewCache, seen, idx, err, errMsg,
                 consulted, processed, removed, pre, repeat, chained, builds>>

\* Create or rewrite an input file.  A rewrite of an existing file that
\* moves its modification time forward is a touch.
EnvWriteInput(p, f) ==
  /\ Idle
  /\ inputDir = "dir"
  /\ f # input[p]
  /\ input' = [input EXCEPT ![p] = f]
  /\ UNCHANGED <<out, cacheFile, dirVars, stuck, template, advVars>>
  /\ EnvStep(Exists(input[p]) /\ f.mtime > input[p].mtime)

EnvRemoveInput(p) ==
  /\ Idle
  /\ Exists(input[p])
  /\ input' = [input EXCEPT ![p] = NoFile]
  /\ UNCHANGED <<out, cacheFile, dirVars, stuck, template, advVars>>
  /\ EnvStep(FALSE)

\* The whole input directory is removed.
EnvRemoveInputDir ==
  /\ Idle
  /\ inputDir = "dir"
  /\ inputDir' = "missing"
  /\ input' = NoInput
  /\ UNCHANGED <<out, cacheFile, outputDir, stuck, template, advVars>>
  /\ EnvStep(FALSE)

\* The cache file is deleted, made unreadable, overwritten with garbage, or
\* (v = TRUE) comes from another schema version.
EnvBreakCache(k, v) ==
  /\ Idle
  /\ outputDir = "dir"
  /\ cacheFile' = IF v THEN CacheJSON(2, cacheFile.Files) ELSE BrokenCache(k)
  /\ cacheFile' # cacheFile
  /\ UNCHANGED <<input, out, dirVars, stuck, template, advVars>>
  /\ EnvStep(FALSE)

\* Somebody else writes a file into the output directory.
EnvWriteOutput(q) ==
  /\ Idle
  /\ outputDir = "dir"
  /\ out[q] # Foreign
  /\ out' = Write(out, q, Foreign)
  /\ UNCHANGED <<input, cacheFile, dirVars, stuck, template, advVars>>
  /\ EnvStep(FALSE)

\* ---------------------------------------------------------------- BuildSite
\* if err != nil { return nil, err }: what the walk collected is dropped.
PartialFileSetOnWalkError(in) == DiscoverFiles(in)

FileSetOnWalkError(in) == NoFileSet

\* validateInputsAndCreateOutput: the input path must be a directory, and
\* os.MkdirAll must succeed on the output path.
InputIsValidIfExists(d) == d # "missing"

InputIsValid(d) == d = "dir"

CanCreateOutput(d) == d # "blocked"

\* BuildSite up to the choice of the strategy: the options arrive, the input
\* is validated and the output directory made, DiscoverFiles runs.  The walk
\* can fail, and then there is no FileSet.
StartBuild(o) ==
  /\ pc = "idle"
  /\ builds < MaxBuilds
  /\ builds' = builds + 1
  /\ opts' = o
  /\ pre' = [out |-> out, cache |-> cacheFile, dir |-> outputDir]
  /\ repeat' = (hist.quiet /\ hist.opts = o)
  /\ chained' = \/ (hist.clean /\ hist.rss = o.rss)
                \/ (out = EmptyOut /\ cacheFile = AbsentCache)
  /\ IF InputIsValid(inputDir) /\ CanCreateOutput(outputDir)
     THEN /\ outputDir' = "dir"
          /\ \/ /\ fileSet' = DiscoverFiles(input)
                /\ pc' = "discovered"
                /\ err' = "none"
                /\ errMsg' = NoError
             \/ /\ fileSet' = FileSetOnWalkError(input)
                /\ pc' = "failed"
                /\ err' = "discover"
                /\ errMsg' = Error("error discovering files", NoPath)
     ELSE /\ outputDir' = outputDir
          /\ fileSet' = NoFileSet
          /\ pc' = "failed"
          /\ err' = "setup"
          /\ errMsg' = Error("input or output directory", NoPath)
  /\ strategy' = "none"
  /\ consulted' = FALSE
  /\ processed' = {}
  /\ removed' = {}
  /\ idx' = 1
  /\ UNCHANGED <<fsVars, builderVars, hist, edits, inputDir, stuck, template, advVars>>

\* if !noIncremental { tryIncrementalBuild ... } up to NewIncrementalBuilder,
\* else (or when the cache is not usable) performFullBuild.
ChooseStrategyFailOnGarbage ==
  /\ pc = "discovered"
  /\ LET loaded == loadCache(cacheFile)
         inc == ~opts.noIncremental /\ IsUsable(loaded)
         bad == ~opts.noIncremental /\ cacheFile.kind = "garbage"
     IN /\ consulted' = ~opts.noIncremental
        /\ strategy' = IF bad THEN "none" ELSE IF inc THEN "Incremental" ELSE "Full"
        /\ pc' = IF bad THEN "failed" ELSE IF inc THEN "incMarkdown" ELSE "fullAssets"
        /\ err' = IF bad THEN "load" ELSE "none"
        /\ errMsg' = IF bad THEN Error("failed to load cache", NoPath) ELSE NoError
        /\ cache' = IF inc THEN loaded.cache ELSE newCache
  /\ ibNewCache' = newCache
  /\ seen' = {}
  /\ idx' = 1
  /\ UNCHANGED <<fsVars, callVars, processed, removed, hist, edits, dirVars, stuck, template, advVars>>

\* NewIncrementalBuilder: newCache: newCache(), a cache of its own beside
\* the loaded one.
BuilderCacheSharesLoaded(loaded) == loaded

BuilderNewCache(loaded) == newCache

ChooseStrategy ==
  /\ pc = "discovered"
  /\ LET loaded == loadCache(cacheFile)
         inc == ~opts.noIncremental /\ IsUsable(loaded)
     IN /\ consulted' = ~opts.noIncremental
        /\ strategy' = IF inc THEN "Incremental" ELSE "Full"
        /\ pc' = IF inc THEN "incMarkdown" ELSE "fullAssets"
        /\ cache' = IF inc THEN loaded.cache ELSE newCache
  /\ ibNewCache' = BuilderNewCache(cache')
  /\ seen' = {}
  /\ idx' = 1
  /\ UNCHANGED <<fsVars, callVars, err, errMsg, processed, removed, hist, edits, dirVars, stuck, template, advVars>>

\* A processing call returned an error: the build returns it.
FailFallsBackToFull(what) ==
  /\ pc' = (IF what \in {"markdown", "asset"} THEN "fullAssets" ELSE "failed")
  /\ err' = (IF what \in {"markdown", "asset"} THEN "none" ELSE what)

Fail(what) ==
  /\ pc' = "failed"
  /\ err' = what

\* The loops of the IncrementalBuilder return the error at once: the entries
\* collected so far are dropped and the cache file stays as it was.
CacheAfterFailureSavesPartial(old, partial) == partial

CacheAfterFailure(old, partial) == old

\* One iteration of IncrementalBuilder.ProcessMarkdownFiles, but for what it
\* does to the channel of advisory results.
IncProcessMarkdownStep ==
  /\ pc = "incMarkdown"
  /\ idx <= Len(fileSet.MarkdownFiles)
  /\ LET relPath == fileSet.MarkdownFiles[idx]
         mtime == getMtime(input, relPath)
         entry == cacheFileEntry(mtime, MarkdownDst(relPath))
     IN /\ seen' = seen \cup {relPath}
        /\ IF NeedsProcessing(cache, relPath, mtime)
           THEN \/ /\ out' = ProcessMarkdownFile(out, input, relPath)
                   /\ processed' = processed \cup {relPath}
                   /\ ibNewCache' = [ibNewCache EXCEPT !.Files = Put(@, relPath, entry)]
                   /\ idx' = idx + 1
                   /\ UNCHANGED <<pc, err, errMsg>>
                \/ /\ Fail("markdown")
                   /\ \E cause \in MarkdownFailures :
                         errMsg' = MarkdownError(cause, relPath)
                   /\ UNCHANGED <<out, processed, ibNewCache, idx>>
           ELSE /\ ibNewCache' = [ibNewCache EXCEPT !.Files = Put(@, relPath, entry)]
                /\ idx' = idx + 1
                /\ UNCHANGED <<out, processed, pc, err, errMsg>>
  /\ cacheFile' = IF pc' = "failed" THEN CacheAfterFailure(cacheFile, ibNewCache) ELSE cacheFile
  /\ UNCHANGED <<input, callVars, strategy, cache, consulted, removed, hist, edits, dirVars, stuck, template>>

\* Spec, TreeSpec and RetrySpec do not follow the advisory goroutines, which
\* write no file; AdvSpec below does.
IncProcessMarkdown == IncProcessMarkdownStep /\ UNCHANGED advVars

IncMarkdownDone ==
  /\ pc = "incMarkdown"
  /\ idx > Len(fileSet.MarkdownFiles)
  /\ pc' = "incAssets"
  /\ idx' = 1
  /\ UNCHANGED <<fsVars, callVars, builderVars, strategy, err, errMsg, consulted, processed,
                 removed, hist, edits, dirVars, stuck, template, advVars>>

\* One iteration of IncrementalBuilder.ProcessAssetFiles.
IncProcessAsset ==
  /\ pc = "incAssets"
  /\ idx <= Len(fileSet.AssetFiles)
  /\ LET relPath == fileSet.AssetFiles[idx]
         mtime == getMtime(input, relPath)
         entry == cacheFileEntry(mtime, AssetDst(relPath))
     IN /\ seen' = seen \cup {relPath}
        /\ IF NeedsProcessing(cache, relPath, mtime)
           THEN \/ /\ out' = ProcessAssetFile(out, input, relPath)
                   /\ processed' = processed \cup {relPath}
                   /\ ibNewCache' = [ibNewCache EXCEPT !.Files = Put(@, relPath, entry)]
                   /\ idx' = idx + 1
                   /\ UNCHANGED <<pc, err, errMsg>>
                \/ /\ Fail("asset")
                   /\ errMsg' = AssetError(relPath)
                   /\ UNCHANGED <<out, processed, ibNewCache, idx>>
           ELSE /\ ibNewCache' = [ibNewCache EXCEPT !.Files = Put(@, relPath, entry)]
                /\ idx' = idx + 1
                /\ UNCHANGED <<out, processed, pc, err, errMsg>>
  /\ cacheFile' = IF pc' = "failed" THEN CacheAfterFailure(cacheFile, ibNewCache) ELSE cacheFile
  /\ UNCHANGED <<input, callVars, strategy, cache, consulted, removed, hist, edits, dirVars, stuck, template, advVars>>

IncAssetsDone ==
  /\ pc = "incAssets"
  /\ idx > Len(fileSet.AssetFiles)
  /\ pc' = "incCleanup"
  /\ idx' = 1
  /\ UNCHANGED <<fsVars, callVars, builderVars, strategy, err, errMsg, consulted, processed,
                 removed, hist, edits, dirVars, stuck, template, advVars>>

Deleted(before, after) == {q \in DOMAIN before : Exists(before[q]) /\ ~Exists(after[q])}

\* if !keepOrphaned { builder.CleanupRemovedFiles() }
IncCleanupThen(next) ==
  /\ pc = "incCleanup"
  /\ IF ShouldCleanup(opts.keepOrphaned)
     THEN /\ out' = CleanupRemovedFiles(out, cache, seen, stuck)
          /\ cacheFile' = IF CachePath \in RemovedOutputs(cache, seen)
                          THEN AbsentCache ELSE cacheFile
     ELSE UNCHANGED <<out, cacheFile>>
  /\ removed' = removed \cup Deleted(out, out')
  /\ IF /\ ShouldCleanup(opts.keepOrphaned)
        /\ CleanupFails(RemoveFailures(out, RemovedOutputs(cache, seen), stuck))
     THEN Fail("cleanup") /\ errMsg' = Error("remove", NoPath)
     ELSE pc' = next /\ UNCHANGED <<err, errMsg>>
  /\ UNCHANGED <<input, callVars, builderVars, strategy, idx, consulted, processed,
                 hist, edits, dirVars, stuck, template, advVars>>

IncCleanup == IncCleanupThen("incFeed")

\* generateRSSFeed; writing feed.xml can fail.
FeedStep(next) ==
  /\ \/ /\ out' = Generate(out, fileSet, input, opts.rss, opts.rssMaxItems)
        /\ pc' = next
        /\ UNCHANGED <<err, errMsg>>
     \/ /\ WritesFeed(fileSet, input, opts.rss)
        /\ Fail("rss")
        /\ errMsg' = Error("failed to generate RSS feed", NoPath)
        /\ UNCHANGED out
  /\ UNCHANGED <<input, cacheFile, callVars, builderVars, strategy, idx, consulted,
                 processed, removed, hist, edits, dirVars, stuck, template, advVars>>

IncFeed == pc = "incFeed" /\ FeedStep("incSave")

\* saveCache: os.Create truncates the file, Encode writes the new cache.
\* Create can fail (the file stays as it was), and so can the write after it.
SaveCache(c) ==
  /\ \/ /\ cacheFile' = c
        /\ pc' = "done"
        /\ UNCHANGED <<err, errMsg>>
     \/ /\ UNCHANGED cacheFile
        /\ Fail("save")
        /\ errMsg' = Error("failed to save cache", NoPath)
     \/ /\ cacheFile' = BrokenCache("garbage")
        /\ Fail("save")
        /\ errMsg' = Error("failed to save cache", NoPath)
  /\ UNCHANGED <<input, out, callVars, builderVars, strategy, idx, consulted, processed,
                 removed, hist, edits, dirVars, stuck, template, advVars>>

IncSave == pc = "incSave" /\ SaveCache(ibNewCache)

\* ---------------------------------------------------------- performFullBuild
FullProcessAssetIfChanged ==
  /\ pc = "fullAssets"
  /\ idx <= Len(fileSet.AssetFiles)
  /\ LET relPath == fileSet.AssetFiles[idx]
         old == loadCache(cacheFile).cache
     IN \/ /\ out' = IF NeedsProcessing(old, relPath, getMtime(input, relPath))
                      THEN ProcessAssetFile(out, input, relPath) ELSE out
           /\ processed' = IF NeedsProcessing(old, relPath, getMtime(input, relPath))
                            THEN processed \cup {relPath} ELSE processed
           /\ idx' = idx + 1
           /\ UNCHANGED <<pc, err, errMsg>>
        \/ /\ Fail("asset")
           /\ errMsg' = AssetError(relPath)
           /\ UNCHANGED <<out, processed, idx>>
  /\ UNCHANGED <<input, cacheFile, callVars, builderVars, strategy, consulted, removed,
                 hist, edits, dirVars, stuck, template, advVars>>

\* One iteration of FullBuilder.ProcessAssetFiles (assets come first).
FullProcessAsset ==
  /\ pc = "fullAssets"
  /\ idx <= Len(fileSet.AssetFiles)
  /\ LET relPath == fileSet.AssetFiles[idx]
     IN \/ /\ out' = ProcessAssetFile(out, input, relPath)
           /\ processed' = processed \cup {relPath}
           /\ idx' = idx + 1
           /\ UNCHANGED <<pc, err, errMsg>>
        \/ /\ Fail("asset")
           /\ errMsg' = AssetError(relPath)
           /\ UNCHANGED <<out, processed, idx>>
  /\ UNCHANGED <<input, cacheFile, callVars, builderVars, strategy, consulted, removed,
                 hist, edits, dirVars, stuck, template, advVars>>

FullAssetsDone ==
  /\ pc = "fullAssets"
  /\ idx > Len(fileSet.AssetFiles)
  /\ pc' = "fullMarkdown"
  /\ idx' = 1
  /\ UNCHANGED <<fsVars, callVars, builderVars, strategy, err, errMsg, consulted, processed,
                 removed, hist, edits, dirVars, stuck, template, advVars>>

\* One iteration of FullBuilder.ProcessMarkdownFiles, but for the advisory
\* goroutine it starts.
FullProcessMarkdownStep ==
  /\ pc = "fullMarkdown"
  /\ idx <= Len(fileSet.MarkdownFiles)
  /\ LET relPath == fileSet.MarkdownFiles[idx]
     IN \/ /\ out' = ProcessMarkdownFile(out, input, relPath)
           /\ processed' = processed \cup {relPath}
           /\ idx' = idx + 1
           /\ UNCHANGED <<pc, err, errMsg>>
        \/ /\ Fail("markdown")
           /\ \E cause \in MarkdownFailures : errMsg' = MarkdownError(cause, relPath)
           /\ UNCHANGED <<out, processed, idx>>
  /\ UNCHANGED <<input, cacheFile, callVars, builderVars, strategy, consulted, removed,
                 hist, edits, dirVars, stuck, template>>

FullProcessMarkdown == FullProcessMarkdownStep /\ UNCHANGED advVars

FullMarkdownDoneThen(next) ==
  /\ pc = "fullMarkdown"
  /\ idx > Len(fileSet.MarkdownFiles)
  /\ pc' = next
  /\ idx' = 1
  /\ UNCHANGED <<fsVars, callVars, builderVars, strategy, err, errMsg, consulted, processed,
                 removed, hist, edits, dirVars, stuck, template, advVars>>

FullMarkdownDone == FullMarkdownDoneThen("fullFeed")

FullFeedThenSave == pc = "fullFeed" /\ FeedStep("fullSave")

FullFeed == pc = "fullFeed" /\ FeedStep("fullCleanup")

\* if !keepOrphaned { cleaner.CleanupOrphanedFiles(fileSet) }
FullCleanup ==
  /\ pc = "fullCleanup"
  /\ IF ShouldCleanup(opts.keepOrphaned)
     THEN /\ out' = CleanupOrphanedFiles(out, fileSet, opts.rss, stuck)
          /\ cacheFile' = IF IsOrphan(CachePath, fileSet, opts.rss)
                          THEN AbsentCache ELSE cacheFile
     ELSE UNCHANGED <<out, cacheFile>>
  /\ removed' = removed \cup Deleted(out, out')
  /\ IF /\ ShouldCleanup(opts.keepOrphaned)
        /\ CleanupFails(RemoveFailures(out, Orphans(out, fileSet, opts.rss), stuck))
     THEN Fail("cleanup") /\ errMsg' = Error("remove", NoPath)
     ELSE pc' = "fullSave" /\ UNCHANGED <<err, errMsg>>
  /\ UNCHANGED <<input, callVars, builderVars, strategy, idx, consulted, processed,
                 hist, edits, dirVars, stuck, template, advVars>>

FullSave == pc = "fullSave" /\ SaveCache(CreateCacheFromFileSet(fileSet, input))

\* The output tree and the cache file the running build ends with when
\* none of its steps fails.
Unfailed ==
  [out |-> IF strategy = "Incremental"
           THEN IncrementalBuildOutput(pre.out, cache, fileSet, input, opts)
           ELSE FullBuildOutput(pre.out, fileSet, input, opts),
   cache |-> CreateCacheFromFileSet(fileSet, input)]

\* BuildSite returns; the next call starts from the file system it left.
Return ==
  /\ pc \in {"done", "failed"}
  /\ pc' = "idle"
  /\ hist' = IF builds = MaxBuilds
             THEN NoHist
             ELSE IF pc = "done"
             THEN [NoHist EXCEPT !.quiet = TRUE, !.opts = opts, !.clean = chained,
                                 !.rss = chained /\ opts.rss]
             ELSE IF err \in {"markdown", "asset"}
             THEN [NoHist EXCEPT !.failed = TRUE, !.opts = opts, !.did = processed,
                                 !.want = Unfailed]
             ELSE NoHist
  /\ opts' = NoOpts
  /\ fileSet' = NoFileSet
  /\ strategy' = "none"
  /\ cache' = newCache
  /\ ibNewCache' = newCache
  /\ seen' = {}
  /\ idx' = 1
  /\ err' = "none"
  /\ errMsg' = NoError
  /\ consulted' = FALSE
  /\ processed' = {}
  /\ removed' = {}
  /\ pre' = NoPre
  /\ repeat' = FALSE
  /\ chained' = FALSE
  /\ UNCHANGED <<fsVars, dirVars, builds, edits, stuck, template, advVars>>

\* The steps of a BuildSite call.
BuildStep ==
  \/ \E o \in Opts : StartBuild(o)
  \/ ChooseStrategy
  \/ IncProcessMarkdown
  \/ IncMarkdownDone
  \/ IncProcessAsset
  \/ IncAssetsDone
  \/ IncCleanup
  \/ IncFeed
  \/ IncSave
  \/ FullProcessAsset
  \/ FullAssetsDone
  \/ FullProcessMarkdown
  \/ FullMarkdownDone
  \/ FullFeed
  \/ FullCleanup
  \/ FullSave
  \/ Return

Next ==
  \/ \E p \in InPaths, f \in InFiles : EnvWriteInput(p, f)
  \/ \E p \in InPaths : EnvRemoveInput(p)
  \/ EnvRemoveInputDir
  \/ \E k \in BrokenKinds, v \in BOOLEAN : EnvBreakCache(k, v)
  \/ \E q \in OutPaths : EnvWriteOutput(q)
  \/ BuildStep

Spec == Init /\ [][Next]_vars

\* ------------------------------------------------- one build of a larger tree
\* An output directory in which somebody else's file sits at every path.
StaleOut == [q \in OutTree |-> Foreign]

AllInput == [p \in TreePaths |-> InFile(1, "v1")]

\* One BuildSite call on any input tree over TreePaths, hidden files and
\* directories included, into an empty or a stale output directory that
\* holds no cache, the cache of a build of an empty input, or the cache of a
\* build of the full tree.
TreeInit ==
  /\ template = "ok"
  /\ inputDir = "dir"
  /\ outputDir = "dir"
  /\ input \in [TreePaths -> {NoFile, InFile(1, "v1")}]
  /\ out \in {EmptyOut, StaleOut}
  /\ cacheFile \in {AbsentCache, newCache,
                    CreateCacheFromFileSet(DiscoverFiles(AllInput), AllInput)}
  /\ pc = "idle"
  /\ opts = NoOpts
  /\ fileSet = NoFileSet
  /\ strategy = "none"
  /\ cache = newCache
  /\ ibNewCache = newCache
  /\ seen = {}
  /\ idx = 1
  /\ err = "none"
  /\ errMsg = NoError
  /\ consulted = FALSE
  /\ processed = {}
  /\ removed = {}
  /\ pre = NoPre
  /\ hist = NoHist
  /\ repeat = FALSE
  /\ chained = FALSE
  /\ builds = MaxBuilds - 1
  /\ edits = MaxEdits
  /\ stuck = {}
  /\ NoAdvisories

TreeSpec == TreeInit /\ [][BuildStep]_vars

\* ------------------------------------------- builds after a successful build
\* The file system a successful Full build of some input into an empty
\* output directory left, and an input tree edited since: files removed,
\* added, touched or left alone.  No further edits: builds follow builds.
RetryInit ==
  /\ template = "ok"
  /\ inputDir = "dir"
  /\ outputDir = "dir"
  /\ \E in0 \in [TreePaths -> {NoFile, InFile(1, "v1")}], rss0 \in BOOLEAN :
        /\ \A p \in TreePaths \ InPaths : in0[p] = NoFile
        /\ out = FullBuildOutput(EmptyOut, DiscoverFiles(in0), in0, [NoOpts EXCEPT !.rss = rss0])
        /\ cacheFile = CreateCacheFromFileSet(DiscoverFiles(in0), in0)
  /\ input \in {in \in [TreePaths -> {NoFile, InFile(1, "v1"), InFile(MaxTime, "v2")}] :
                   \A p \in TreePaths \ InPaths : in[p] = NoFile}
  /\ pc = "idle"
  /\ opts = NoOpts
  /\ fileSet = NoFileSet
  /\ strategy = "none"
  /\ cache = newCache
  /\ ibNewCache = newCache
  /\ seen = {}
  /\ idx = 1
  /\ err = "none"
  /\ errMsg = NoError
  /\ consulted = FALSE
  /\ processed = {}
  /\ removed = {}
  /\ pre = NoPre
  /\ hist = NoHist
  /\ repeat = FALSE
  /\ chained = FALSE
  /\ builds = 0
  /\ edits = MaxEdits
  /\ stuck = {}
  /\ NoAdvisories

RetrySpec == RetryInit /\ [][BuildStep]_vars

\* ------------------------------------------------------------ the template
TemplateDocs == {aMd, dCMd}

\* One or two BuildSite calls on a tree of up to two documents and an
\* asset, into an empty output directory or on top of a build whose
\* template worked, with a template in any state.
TemplateInit ==
  /\ template \in TemplateStates
  /\ inputDir = "dir"
  /\ outputDir = "dir"
  /\ input \in {in \in [TreePaths -> {NoFile, InFile(1, "v1"), InFile(MaxTime, "v2")}] :
                   \A p \in TreePaths \ (TemplateDocs \cup {bTxt}) : in[p] = NoFile}
  /\ \/ out = EmptyOut /\ cacheFile = AbsentCache
     \/ \E in0 \in [TreePaths -> {NoFile, InFile(1, "v1")}] :
           /\ \A p \in TreePaths \ TemplateDocs : in0[p] = NoFile
           /\ out = [q \in OutTree |->
                        IF \E p \in TemplateDocs : Exists(in0[p]) /\ q = HtmlPath(p)
                        THEN Page(Converted(InFile(1, "v1"))) ELSE NoFile]
           /\ cacheFile = CreateCacheFromFileSet(DiscoverFiles(in0), in0)
  /\ pc = "idle"
  /\ opts = NoOpts
  /\ fileSet = NoFileSet
  /\ strategy = "none"
  /\ cache = newCache
  /\ ibNewCache = newCache
  /\ seen = {}
  /\ idx = 1
  /\ err = "none"
  /\ errMsg = NoError
  /\ consulted = FALSE
  /\ processed = {}
  /\ removed = {}
  /\ pre = NoPre
  /\ hist = NoHist
  /\ repeat = FALSE
  /\ chained = FALSE
  /\ builds = MaxBuilds - 1
  /\ edits = MaxEdits
  /\ stuck = {}
  /\ NoAdvisories

TemplateSpec == TemplateInit /\ [][BuildStep]_vars

\* ------------------------------------------- inputs modified during a build
LivePaths == {aMd, dCMd, bTxt}

\* Somebody rewrites an input file while BuildSite runs: new content, a
\* newer modification time.
EnvModifyInput(p) ==
  /\ pc \notin {"idle", "done", "failed"}
  /\ edits < MaxEdits
  /\ Exists(input[p])
  /\ input[p].mtime < MaxTime
  /\ input' = [input EXCEPT ![p] = InFile(MaxTime, "v2")]
  /\ edits' = edits + 1
  /\ UNCHANGED <<out, cacheFile, pc, opts, fileSet, strategy, cache, ibNewCache, seen, idx,
                 err, errMsg, consulted, processed, removed, pre, hist, repeat, chained,
                 builds, dirVars, stuck, template, advVars>>

\* One BuildSite call on a tree of files of content v1 and time 1, into an
\* empty output directory, or one that holds an empty cache, or one that a
\* build of an earlier tree left.
LiveInit ==
  /\ template = "ok"
  /\ inputDir = "dir"
  /\ outputDir = "dir"
  /\ input \in {in \in [TreePaths -> {NoFile, InFile(1, "v1")}] :
                   \A p \in TreePaths \ LivePaths : in[p] = NoFile}
  /\ \/ out = EmptyOut /\ cacheFile \in {AbsentCache, newCache}
     \/ \E in0 \in [TreePaths -> {NoFile, InFile(1, "v1")}] :
           /\ \A p \in TreePaths \ LivePaths : in0[p] = NoFile
           /\ out = FullBuildOutput(EmptyOut, DiscoverFiles(in0), in0, NoOpts)
           /\ cacheFile = CreateCacheFromFileSet(DiscoverFiles(in0), in0)
  /\ pc = "idle"
  /\ opts = NoOpts
  /\ fileSet = NoFileSet
  /\ strategy = "none"
  /\ cache = newCache
  /\ ibNewCache = newCache
  /\ seen = {}
  /\ idx = 1
  /\ err = "none"
  /\ errMsg = NoError
  /\ consulted = FALSE
  /\ processed = {}
  /\ removed = {}
  /\ pre = NoPre
  /\ hist = NoHist
  /\ repeat = FALSE
  /\ chained = FALSE
  /\ builds = MaxBuilds - 1
  /\ edits = 0
  /\ stuck = {}
  /\ NoAdvisories

LiveNext ==
  \/ BuildStep
  \/ \E p \in LivePaths : EnvModifyInput(p)

LiveSpec == LiveInit /\ [][LiveNext]_vars

\* ------------------------------------------------- a cache written by hand
\* The directory name "..": filepath.Join(outputDir, "../x") is a path
\* beside the output directory.
Parent == Name(".", ".")

OutsidePath == In(Parent, Path("x", ""))

CraftKeys == {aMd, bTxt}

\* The Output strings a decodable cache file can carry: json.Decode accepts
\* any string.
CraftOutputs == {HtmlPath(aMd), bTxt, CachePath, OutsidePath}

\* The version-1 caches over CraftKeys, whatever outputs they record.
CraftCaches ==
  {CacheJSON(1, files) :
     files \in UNION {[keys -> {cacheFileEntry(1, o) : o \in CraftOutputs}] :
                        keys \in SUBSET CraftKeys}}

\* One BuildSite call on a tree of up to two files, with an output
\* directory that holds the outputs of both or none and a cache file
\* somebody wrote by hand.  What lies outside the output directory is not
\* part of the state: a removal there shows in its target only.
CraftInit ==
  /\ template = "ok"
  /\ inputDir = "dir"
  /\ outputDir = "dir"
  /\ input \in {in \in [TreePaths -> {NoFile, InFile(1, "v1"), InFile(MaxTime, "v2")}] :
                   \A p \in TreePaths \ CraftKeys : in[p] = NoFile}
  /\ out \in {EmptyOut,
              [q \in OutTree |-> IF q = HtmlPath(aMd) THEN Rendered(InFile(1, "v1"))
                                 ELSE IF q = bTxt THEN Copied(InFile(1, "v1")) ELSE NoFile]}
  /\ cacheFile \in CraftCaches
  /\ pc = "idle"
  /\ opts = NoOpts
  /\ fileSet = NoFileSet
  /\ strategy = "none"
  /\ cache = newCache
  /\ ibNewCache = newCache
  /\ seen = {}
  /\ idx = 1
  /\ err = "none"
  /\ errMsg = NoError
  /\ consulted = FALSE
  /\ processed = {}
  /\ removed = {}
  /\ pre = NoPre
  /\ hist = NoHist
  /\ repeat = FALSE
  /\ chained = FALSE
  /\ builds = MaxBuilds - 1
  /\ edits = MaxEdits
  /\ stuck = {}
  /\ NoAdvisories

CraftSpec == CraftInit /\ [][BuildStep]_vars

\* ------------------------------------------------------- the item limit
RssDocs == {aMarkdown, aMd, dCMd}

\* The options with every item limit from 0 (no limit) to MaxLimit.
RssOpts == OptsWith(0..MaxLimit)

\* A feed.xml an earlier build left in the output directory.
OldFeed == Write(EmptyOut, FeedPath, Feed(<<aMd>>))

\* One BuildSite call on up to three documents of two modification times
\* and an asset, into an output directory that is empty or holds an old
\* feed, with or without a cache.
RssInit ==
  /\ template = "ok"
  /\ inputDir = "dir"
  /\ outputDir = "dir"
  /\ input \in {in \in [TreePaths -> {NoFile, InFile(1, "v1"), InFile(MaxTime, "v1")}] :
                   /\ \A p \in TreePaths \ (RssDocs \cup {bTxt}) : in[p] = NoFile
                   /\ in[bTxt] # InFile(MaxTime, "v1")}
  /\ out \in {EmptyOut, OldFeed}
  /\ cacheFile \in {AbsentCache, newCache}
  /\ pc = "idle"
  /\ opts = NoOpts
  /\ fileSet = NoFileSet
  /\ strategy = "none"
  /\ cache = newCache
  /\ ibNewCache = newCache
  /\ seen = {}
  /\ idx = 1
  /\ err = "none"
  /\ errMsg = NoError
  /\ consulted = FALSE
  /\ processed = {}
  /\ removed = {}
  /\ pre = NoPre
  /\ hist = NoHist
  /\ repeat = FALSE
  /\ chained = FALSE
  /\ builds = MaxBuilds - 1
  /\ edits = MaxEdits
  /\ stuck = {}
  /\ NoAdvisories

RssNext ==
  \/ \E o \in RssOpts : StartBuild(o)
  \/ ChooseStrategy
  \/ IncProcessMarkdown
  \/ IncMarkdownDone
  \/ IncProcessAsset
  \/ IncAssetsDone
  \/ IncCleanup
  \/ IncFeed
  \/ IncSave
  \/ FullProcessAsset
  \/ FullAssetsDone
  \/ FullProcessMarkdown
  \/ FullMarkdownDone
  \/ FullFeed
  \/ FullCleanup
  \/ FullSave
  \/ Return

RssSpec == RssInit /\ [][RssNext]_vars

\* ------------------------------------------------- removals that fail
\* One BuildSite call on the file system a successful Full build of some
\* input left, from which output files have since been removed (gone), in
\* which some output files cannot be removed (stuck), and with an input
\* tree edited since.
StuckInputs == {aMd, bTxt, dCMd}

StuckPaths == {OutputOf(p) : p \in StuckInputs}

StuckInit ==
  /\ template = "ok"
  /\ inputDir = "dir"
  /\ outputDir = "dir"
  /\ stuck \in SUBSET StuckPaths
  /\ \E in0 \in [TreePaths -> {NoFile, InFile(1, "v1")}], gone \in SUBSET StuckPaths :
        /\ \A p \in TreePaths \ StuckInputs : in0[p] = NoFile
        /\ gone \cap stuck = {}
        /\ out = RemoveAll(FullBuildOutput(EmptyOut, DiscoverFiles(in0), in0, NoOpts), gone, {})
        /\ cacheFile = CreateCacheFromFileSet(DiscoverFiles(in0), in0)
  /\ input \in {in \in [TreePaths -> {NoFile, InFile(1, "v1"), InFile(MaxTime, "v2")}] :
                   \A p \in TreePaths \ StuckInputs : in[p] = NoFile}
  /\ pc = "idle"
  /\ opts = NoOpts
  /\ fileSet = NoFileSet
  /\ strategy = "none"
  /\ cache = newCache
  /\ ibNewCache = newCache
  /\ seen = {}
  /\ idx = 1
  /\ err = "none"
  /\ errMsg = NoError
  /\ consulted = FALSE
  /\ processed = {}
  /\ removed = {}
  /\ pre = NoPre
  /\ hist = NoHist
  /\ repeat = FALSE
  /\ chained = FALSE
  /\ builds = MaxBuilds - 1
  /\ edits = MaxEdits
  /\ NoAdvisories

StuckSpec == StuckInit /\ [][BuildStep]_vars

\* ------------------------------------------------- the advisory goroutines
\* sizeOut := make(chan string, len(fileSet.MarkdownFiles))
ChanCapOneShort(fs) == IF Len(fs.MarkdownFiles) > 0 THEN Len(fs.MarkdownFiles) - 1 ELSE 0

ChanCap(fs) == Len(fs.MarkdownFiles)

\* The compressed size of a file is a function of its content.
gzipSize(file) == file.data

\* A result on the channel: the text names the path and the size.  doc, the
\* index of the document the result was produced for, is not in the text.
Msg(i, path, size) == [doc |-> i, path |-> path, size |-> size]

\* sizeOut <- "" for a document that was skipped.
EmptyMsg(i) == [doc |-> i, path |-> NoPath, size |-> ""]

\* The goroutine CheckGzipSize starts: it has yet to read path ("spawned"),
\* has read it ("read"), has sent its result ("sent"), or has returned
\* without one because the file could not be read ("gone").
Task(state, path, file) == [state |-> state, path |-> path, file |-> file]

\* One iteration of IncrementalBuilder.ProcessMarkdownFiles with what it
\* does to the channel: ProcessMarkdownFile ends with CheckGzipSize, a
\* skipped document sends the empty result itself.
AdvIncProcessMarkdown ==
  /\ IncProcessMarkdownStep
  /\ LET relPath == fileSet.MarkdownFiles[idx]
     IN IF pc' = "failed"
        THEN UNCHANGED advVars
        ELSE IF NeedsProcessing(cache, relPath, getMtime(input, relPath))
        THEN /\ tasks' = Put(tasks, idx, Task("spawned", MarkdownDst(relPath), NoFile))
             /\ UNCHANGED <<sizeOut, printed>>
        ELSE /\ Len(sizeOut) < ChanCap(fileSet)
             /\ sizeOut' = Append(sizeOut, EmptyMsg(idx))
             /\ UNCHANGED <<tasks, printed>>

AdvFullProcessMarkdown ==
  /\ FullProcessMarkdownStep
  /\ LET relPath == fileSet.MarkdownFiles[idx]
     IN IF pc' = "failed"
        THEN UNCHANGED advVars
        ELSE /\ tasks' = Put(tasks, idx, Task("spawned", MarkdownDst(relPath), NoFile))
             /\ UNCHANGED <<sizeOut, printed>>

\* data, err := os.ReadFile(path); if err != nil { return }
\* The read fails when the file is no longer there, and it can fail on a
\* file that is (not readable, no descriptor left).
TaskRead(i) ==
  /\ i \in DOMAIN tasks
  /\ tasks[i].state = "spawned"
  /\ \/ /\ Exists(out[tasks[i].path])
        /\ tasks' = [tasks EXCEPT ![i] = Task("read", @.path, out[@.path])]
     \/ tasks' = [tasks EXCEPT ![i] = Task("gone", @.path, NoFile)]
  /\ UNCHANGED <<inputDir, outputDir, input, out, cacheFile, pc, opts, fileSet, strategy,
                 cache, ibNewCache, seen, idx, err, errMsg, consulted, processed, removed, pre,
                 hist, repeat, chained, builds, edits, stuck, template, sizeOut, printed>>

\* out <- msg, which waits while the buffer is full.
TaskSend(i) ==
  /\ i \in DOMAIN tasks
  /\ tasks[i].state = "read"
  /\ Len(sizeOut) < ChanCap(fileSet)
  /\ sizeOut' = Append(sizeOut, Msg(i, tasks[i].path, gzipSize(tasks[i].file)))
  /\ tasks' = [tasks EXCEPT ![i] = Task("sent", @.path, @.file)]
  /\ UNCHANGED <<inputDir, outputDir, input, out, cacheFile, pc, opts, fileSet, strategy,
                 cache, ibNewCache, seen, idx, err, errMsg, consulted, processed, removed, pre,
                 hist, repeat, chained, builds, edits, stuck, template, printed>>

\* for i := 0; i < len(fileSet.MarkdownFiles); i++ { fmt.Fprint(os.Stderr, <-sizeOut) }
\* One receive, which waits while the buffer is empty, or the end of the loop.
Drain(next) ==
  /\ IF Len(printed) < Len(fileSet.MarkdownFiles)
     THEN /\ sizeOut # <<>>
          /\ printed' = Append(printed, Head(sizeOut))
          /\ sizeOut' = Tail(sizeOut)
          /\ UNCHANGED pc
     ELSE /\ pc' = next
          /\ UNCHANGED <<sizeOut, printed>>
  /\ UNCHANGED <<inputDir, outputDir, input, out, cacheFile, opts, fileSet, strategy,
                 cache, ibNewCache, seen, idx, err, errMsg, consulted, processed, removed, pre,
                 hist, repeat, chained, builds, edits, stuck, template, tasks>>

\* tryIncrementalBuild drains after the cleanup, performFullBuild after the
\* documents and before the feed and the cleanup.
AdvIncCleanup == IncCleanupThen("incDrain")

IncDrain == pc = "incDrain" /\ Drain("incFeed")

AdvFullMarkdownDone == FullMarkdownDoneThen("fullDrain")

FullDrain == pc = "fullDrain" /\ Drain("fullFeed")

\* One BuildSite call, with its goroutines, on the file system a successful
\* Full build of some input left and an input tree edited since.
AdvPaths == {aMarkdown, aMd, dCMd, bTxt}

AdvInit ==
  /\ template = "ok"
  /\ inputDir = "dir"
  /\ outputDir = "dir"
  /\ \E in0 \in [TreePaths -> {NoFile, InFile(1, "v1")}] :
        /\ \A p \in TreePaths \ AdvPaths : in0[p] = NoFile
        /\ out = FullBuildOutput(EmptyOut, DiscoverFiles(in0), in0, NoOpts)
        /\ cacheFile = CreateCacheFromFileSet(DiscoverFiles(in0), in0)
  /\ input \in {in \in [TreePaths -> {NoFile, InFile(1, "v1"), InFile(MaxTime, "v2")}] :
                   \A p \in TreePaths \ AdvPaths : in[p] = NoFile}
  /\ pc = "idle"
  /\ opts = NoOpts
  /\ fileSet = NoFileSet
  /\ strategy = "none"
  /\ cache = newCache
  /\ ibNewCache = newCache
  /\ seen = {}
  /\ idx = 1
  /\ err = "none"
  /\ errMsg = NoError
  /\ consulted = FALSE
  /\ processed = {}
  /\ removed = {}
  /\ pre = NoPre
  /\ hist = NoHist
  /\ repeat = FALSE
  /\ chained = FALSE
  /\ builds = MaxBuilds - 1
  /\ edits = MaxEdits
  /\ stuck = {}
  /\ NoAdvisories

\* The feed has no part in the advisories: no --rss-url here.
AdvOpts == {o \in Opts : ~o.rss}

\* The goroutines run on after BuildSite has returned an error, until the
\* process exits.
AdvNext ==
  \/ \E o \in AdvOpts : StartBuild(o)
  \/ ChooseStrategy
  \/ AdvIncProcessMarkdown
  \/ IncMarkdownDone
  \/ IncProcessAsset
  \/ IncAssetsDone
  \/ AdvIncCleanup
  \/ IncDrain
  \/ IncFeed
  \/ IncSave
  \/ FullProcessAsset
  \/ FullAssetsDone
  \/ AdvFullProcessMarkdown
  \/ AdvFullMarkdownDone
  \/ FullDrain
  \/ FullFeed
  \/ FullCleanup
  \/ FullSave
  \/ \E i \in 1..Len(fileSet.MarkdownFiles) : TaskRead(i)
  \/ \E i \in 1..Len(fileSet.MarkdownFiles) : TaskSend(i)

AdvSpec == AdvInit /\ [][AdvNext]_vars

\* ================================================================== claims
\* A Full build of the same input into an empty output directory.
FromScratch == FullBuildOutput(EmptyOut, fileSet, input, opts)

CacheValid(cf) == cf.kind = "json" /\ cf.Version = 1

Chosen == pc \notin {"idle", "discovered"} /\ strategy # "none"

\* C1: BuildSite runs the Incremental strategy exactly when no-incremental
\* is false and the cache file it found decodes and has version 1; in every
\* other case it runs the Full strategy, and with no-incremental set it runs
\* Full without calling loadCache at all.
C1_StrategySelection ==
  Chosen =>
    /\ strategy \in {"Incremental", "Full"}
    /\ (strategy = "Incremental") <=> (~opts.noIncremental /\ CacheValid(pre.cache))
    /\ opts.noIncremental => (strategy = "Full" /\ ~consulted)
    /\ strategy = "Incremental" => (consulted /\ cache = pre.cache)

\* A forced Full build although a valid version-1 cache with entries exists.
C1_Witness ==
  /\ Chosen
  /\ opts.noIncremental
  /\ CacheValid(pre.cache)
  /\ DOMAIN pre.cache.Files # {}
  /\ strategy = "Full"

\* The loaded cache has no entry for p, or one with another modification time.
Changed(p) == p \notin DOMAIN cache.Files \/ cache.Files[p].Mtime # getMtime(input, p)

\* The inputs whose loop iteration has completed.
Handled == DOMAIN ibNewCache.Files

IncProcessing == pc \in {"incMarkdown", "incAssets", "incCleanup"}

IncProcessed == pc \in {"incCleanup", "incFeed", "incSave", "done"}

C3_CacheKeysAreDiscovered ==
  pc = "done" =>
    /\ CacheValid(cacheFile)
    /\ DOMAIN cacheFile.Files = Discovered(fileSet)

\* A successful Incremental build that skipped an unchanged path and whose
\* old cache carried a path that is no longer discovered.
C3_Witness ==
  /\ pc = "done"
  /\ strategy = "Incremental"
  /\ Handled \ processed # {}
  /\ (DOMAIN cache.Files) \ Discovered(fileSet) # {}

\* The cache entries of inputs that are no longer discovered.
Vanished == (DOMAIN cache.Files) \ Discovered(fileSet)

\* C4: after a successful Incremental build without keep-orphaned, the
\* recorded output of every cache entry whose input is gone has been removed,
\* the output of every discovered input still exists, and every output file
\* that is neither such a recorded output, nor written by a processed input,
\* nor the feed is as the build found it.
C4_DeletionPropagation ==
  (pc = "done" /\ strategy = "Incremental" /\ ~opts.keepOrphaned) =>
    /\ \A p \in Vanished : ~Exists(out[cache.Files[p].Output])
    /\ \A p \in Discovered(fileSet) : Exists(out[OutputOf(p)])
    /\ \A q \in OutPaths :
         (/\ q \notin {cache.Files[p].Output : p \in Vanished}
          /\ q \notin {OutputOf(p) : p \in processed}
          /\ q # FeedPath) => out[q] = pre.out[q]

\* C5: between builds, whatever builds and edits came before, every entry
\* of the persisted cache records an output file that exists.
C5_CacheOutputConsistency ==
  (pc = "idle" /\ cacheFile.kind = "json") =>
    \A p \in DOMAIN cacheFile.Files : Exists(out[cacheFile.Files[p].Output])

\* C6: a successful build that continues a chain begun by a Full build into
\* an empty output directory, with only touches of existing inputs and
\* successful builds in between, leaves the output tree a from-scratch Full
\* build of the current input leaves.
C6_IncrementalEquivalence ==
  (pc = "done" /\ chained) => out = FromScratch

\* C7 as claimed: a successful build that repeats a successful build, with
\* input, options, cache and output untouched in between, processes
\* nothing, deletes nothing and leaves output tree and cache as it found them.
C7_RepeatWritesNothing ==
  (pc = "done" /\ repeat) =>
    /\ processed = {}
    /\ removed = {}
    /\ cacheFile = pre.cache
    /\ out = pre.out

\* C7 as amended: the repeated build processes nothing unless no-incremental
\* is set; in either case it deletes nothing, persists the cache it found,
\* and leaves every output file other than the feed as it found it.
C7_RepeatIdempotent ==
  (pc = "done" /\ repeat) =>
    /\ ~opts.noIncremental => (strategy = "Incremental" /\ processed = {})
    /\ removed = {}
    /\ cacheFile = pre.cache
    /\ \A q \in OutPaths \ {FeedPath} : out[q] = pre.out[q]

\* A repeated build that took the Incremental strategy over a document and
\* an asset.
C7_Witness ==
  /\ pc = "done"
  /\ repeat
  /\ strategy = "Incremental"
  /\ Cardinality(Discovered(fileSet)) >= 2
  /\ Range(fileSet.MarkdownFiles) # {}
  /\ Range(fileSet.AssetFiles) # {}

\* The build found a cache file that is there but is no version-1 cache.
FoundBrokenCache == pre.cache.kind # "absent" /\ ~CacheValid(pre.cache)

Spared(q) == opts.keepOrphaned \/ HasDotPrefix(q) \/ (q = FeedPath /\ opts.rss)

LoadRejected == ~opts.noIncremental /\ ~CacheValid(pre.cache)

\* C9: whenever the cache file is absent, unreadable, undecodable or of
\* another version, the build runs the Full strategy and never fails
\* because of the cache: the only failures are those of processing, feed
\* and cache writing, and a successful build ends as performFullBuild ends
\* on the output tree it found, whichever way the cache was broken.
C9_LoadFailureIsNotFatal ==
  (pc \notin {"idle", "discovered"} /\ err \notin {"setup", "discover"} /\ LoadRejected) =>
    /\ strategy = "Full"
    /\ consulted
    /\ err \in {"none", "markdown", "asset", "rss", "save"}
    /\ pc = "failed" <=> err # "none"
    /\ pc = "done" =>
         /\ out = FullBuildOutput(pre.out, fileSet, input, opts)
         /\ cacheFile = CreateCacheFromFileSet(fileSet, input)

\* A build that found garbage in the cache file and completed.
C9_Witness ==
  /\ pc = "done"
  /\ LoadRejected
  /\ pre.cache.kind = "garbage"
  /\ Discovered(fileSet) # {}

\* C10: a build run with keep-orphaned deletes nothing, in either strategy:
\* every file of the output tree it found still exists, and so does the
\* cache file.
C10_KeepOrphanedDeletesNothing ==
  (pc # "idle" /\ opts.keepOrphaned) =>
    /\ removed = {}
    /\ \A q \in OutPaths : Exists(pre.out[q]) => Exists(out[q])
    /\ pre.cache.kind # "absent" => cacheFile.kind # "absent"

\* A successful Incremental build with keep-orphaned whose loaded cache
\* names a vanished input, the recorded output of which is still there.
C10_Witness ==
  /\ pc = "done"
  /\ opts.keepOrphaned
  /\ strategy = "Incremental"
  /\ \E p \in Vanished : Exists(out[cache.Files[p].Output]) /\ OutputOf(p) \notin {OutputOf(d) : d \in Discovered(fileSet)}

\* The output paths the build derives for the discovered inputs.
ExpectedOutputs == {OutputOf(p) : p \in Discovered(fileSet)}

\* The name of the file, or of a directory above it, begins with a dot.
DotNamed(q) == HasDotPrefix(q) \/ \E i \in 1..Len(q.dir) : HasDotPrefix(q.dir[i])

FullDoneCleaned == pc = "done" /\ strategy = "Full" /\ ~opts.keepOrphaned

\* C11 as claimed: after a successful Full build without keep-orphaned,
\* every regular file of the output tree is the output of a discovered input,
\* the cache file, or feed.xml when a feed base URL is set.
C11_OnlyExpectedFilesRemain ==
  FullDoneCleaned =>
    \A q \in OutTree :
       Exists(out[q]) => (q \in ExpectedOutputs \/ (q = FeedPath /\ opts.rss))

\* C11 as amended: after such a build every regular file of the output tree
\* is the output of a discovered input, the cache file, feed.xml when a feed
\* base URL is set, or a file whose name, or the name of a directory above
\* it, begins with a dot; the files of the last kind are as the build found
\* them, and every other file that was in the output tree has been deleted.
C11_OnlyExpectedOrDotFilesRemain ==
  FullDoneCleaned =>
    \A q \in OutTree :
       /\ Exists(out[q]) =>
            (q \in ExpectedOutputs \/ (q = FeedPath /\ opts.rss) \/ DotNamed(q))
       /\ DotNamed(q) => out[q] = pre.out[q]

\* A Full build has deleted an orphan and left a file below a hidden
\* directory and a hidden file of the output tree in place.
C11_Witness ==
  /\ FullDoneCleaned
  /\ Exists(out[gitConfig])
  /\ Exists(out[HiddenOut])
  /\ removed # {}
  /\ Discovered(fileSet) # {}

\* The Full strategy is past its cleanup, which ran.
FullCleaned == strategy = "Full" /\ pc \in {"fullSave", "done"} /\ ~opts.keepOrphaned

\* C12: the cleanup of the Full strategy never deletes the cache file, and
\* never deletes feed.xml when a feed base URL is set; without a feed base
\* URL a feed.xml that is not the output of a discovered input is deleted.
C12_CleanupExemptions ==
  /\ (strategy = "Full" /\ pc = "fullSave") => cacheFile = pre.cache
  /\ (strategy = "Full" /\ opts.rss) => FeedPath \notin removed
  /\ (FullCleaned /\ ~opts.rss /\ FeedPath \notin ExpectedOutputs) => ~Exists(out[FeedPath])
  /\ (FullCleaned /\ FeedPath \in ExpectedOutputs) => Exists(out[FeedPath])

\* A Full build's cleanup ran over an existing cache file and a foreign
\* feed.xml, with a feed base URL set, and deleted other files.
C12_Witness ==
  /\ strategy = "Full"
  /\ pc = "fullSave"
  /\ ~opts.keepOrphaned
  /\ opts.rss
  /\ pre.cache.kind = "json"
  /\ pre.out[FeedPath] = Foreign
  /\ out[FeedPath] = Foreign
  /\ removed # {}

\* The build returned the error of a ProcessMarkdownFile or ProcessAssetFile.
ProcessFailed == pc = "failed" /\ err \in {"markdown", "asset"}

Before(files, i) == {files[j] : j \in 1..(i - 1)}

\* The files whose iteration precedes that of the failing file: the
\* Incremental strategy goes through the documents first, the Full strategy
\* through the assets first.
BeforeFailure ==
  IF err = "markdown"
  THEN Before(fileSet.MarkdownFiles, idx)
         \cup (IF strategy = "Full" THEN Range(fileSet.AssetFiles) ELSE {})
  ELSE Before(fileSet.AssetFiles, idx)
         \cup (IF strategy = "Incremental" THEN Range(fileSet.MarkdownFiles) ELSE {})

IncSteps == {"incMarkdown", "incAssets", "incCleanup", "incFeed", "incSave", "done", "failed"}

\* C13: a processing error on one file ends the build with that error: no
\* file after it in the sequence is processed, nothing is deleted, neither
\* the feed nor the cache is written, and a build that chose the Incremental
\* strategy never enters the Full strategy.
C13_ProcessingErrorAborts ==
  /\ ProcessFailed =>
       /\ processed \subseteq BeforeFailure
       /\ removed = {}
       /\ cacheFile = pre.cache
       /\ \A q \in OutTree \ {OutputOf(p) : p \in processed} : out[q] = pre.out[q]
       /\ (strategy = "Incremental") <=> (~opts.noIncremental /\ CacheValid(pre.cache))
  /\ (err \in {"markdown", "asset"}) => pc = "failed"
  /\ strategy = "Incremental" => pc \in IncSteps

\* An Incremental build failed at an asset after it had rendered a changed
\* document, with a feed still to write.
C13_Witness ==
  /\ ProcessFailed
  /\ err = "asset"
  /\ strategy = "Incremental"
  /\ processed # {}
  /\ opts.rss
  /\ ~opts.keepOrphaned

\* What a processed input leaves at its output path.
Fresh(p) == IF classifyFile(p) = "markdown" THEN Rendered(input[p]) ELSE Copied(input[p])

FailedBeforeSave == pc = "failed" /\ err \in {"setup", "discover", "markdown", "asset", "rss"}

\* C14: a build that fails in setup, discovery, processing or feed
\* generation leaves the cache file as it found it, absent or with the same
\* version and entries, and what it has written stays: every output path
\* of a processed input that no cleanup removed holds what a processed
\* input wrote there.
C14_FailedBuildKeepsCache ==
  FailedBeforeSave =>
    /\ cacheFile = pre.cache
    /\ \A p \in processed :
         OutputOf(p) \notin removed =>
           out[OutputOf(p)] \in {Fresh(p2) : p2 \in {x \in processed : OutputOf(x) = OutputOf(p)}}

\* An Incremental build rendered a changed document, removed the output of a
\* vanished input, and then failed to write the feed.
C14_Witness ==
  /\ pc = "failed"
  /\ err = "rss"
  /\ strategy = "Incremental"
  /\ processed # {}
  /\ removed # {}
  /\ DOMAIN pre.cache.Files # {}

\* The build retries a build that failed at a file, with the same options
\* and nothing edited in between.
Retrying == hist.failed /\ hist.opts = opts

C16_AtomicCacheSave ==
  pc # "idle" =>
    \/ cacheFile = pre.cache
    \/ /\ CacheValid(cacheFile)
       /\ DOMAIN cacheFile.Files = Discovered(fileSet)

\* The running call touched nothing: no output directory made, no
\* discovery, no cache consulted, nothing written or deleted.
NothingDone ==
  /\ outputDir = pre.dir
  /\ fileSet = NoFileSet
  /\ strategy = "none"
  /\ ~consulted
  /\ processed = {}
  /\ removed = {}
  /\ out = pre.out
  /\ cacheFile = pre.cache

SetupCanPass == inputDir = "dir" /\ pre.dir # "blocked"

C18_DiscoveryErrorAborts ==
  (pc # "idle" /\ err = "discover") =>
    /\ pc = "failed"
    /\ fileSet = NoFileSet
    /\ ~consulted
    /\ strategy = "none"
    /\ processed = {}
    /\ removed = {}
    /\ out = pre.out
    /\ cacheFile = pre.cache

\* The walk failed over an input tree that holds files, next to the cache
\* and the outputs of an earlier build.
C18_Witness ==
  /\ pc = "failed"
  /\ err = "discover"
  /\ \E p \in InPaths : Exists(input[p])
  /\ CacheValid(pre.cache)
  /\ DOMAIN pre.cache.Files # {}
  /\ \E q \in OutTree : Exists(out[q])

\* The input files that are hidden, or lie below a hidden directory.
HiddenInputs == {p \in TreePaths : DotNamed(p) /\ Exists(input[p])}

\* C19: no discovered path has a component that begins with a dot: a hidden
\* file is skipped and nothing below a hidden directory is discovered, and
\* the build goes on; a hidden input is never processed, its output path is
\* left as the build found it, and it gets no cache entry.
C19_HiddenExclusion ==
  pc # "idle" =>
    /\ \A p \in Discovered(fileSet) : ~DotNamed(p)
    /\ \A p \in HiddenInputs :
         /\ p \notin processed
         /\ out[OutputOf(p)] = pre.out[OutputOf(p)]
         /\ p \notin DOMAIN ibNewCache.Files
         /\ pc = "done" => p \notin DOMAIN cacheFile.Files

\* A successful build of a tree that holds a hidden document, a document
\* below a hidden directory, and files that are not hidden.
C19_Witness ==
  /\ pc = "done"
  /\ gitXMd \in HiddenInputs
  /\ dotMd \in HiddenInputs
  /\ Range(fileSet.MarkdownFiles) # {}
  /\ Range(fileSet.AssetFiles) # {}

\* How often p occurs in a sequence of the FileSet.
Count(files, p) == Cardinality({i \in 1..Len(files) : files[i] = p})

HasFileSet == pc # "idle" /\ err \notin {"setup", "discover"}

\* C20: every regular file of the input tree that is not hidden occurs
\* exactly once in the FileSet, among the documents if and only if its
\* extension is exactly ".md" or ".markdown" and among the assets otherwise
\* (so "a.MD" is an asset); nothing else occurs in the FileSet.
C20_ClassificationPartitions ==
  HasFileSet =>
    \A p \in TreePaths :
       LET docs == Count(fileSet.MarkdownFiles, p)
           assets == Count(fileSet.AssetFiles, p)
       IN IF Exists(input[p]) /\ ~DotNamed(p)
          THEN /\ docs + assets = 1
               /\ docs = 1 <=> p.ext \in {".md", ".markdown"}
          ELSE docs + assets = 0

\* A discovery over a tree with documents of both extensions, one of them
\* in a subdirectory, an asset, and a file with the extension ".MD".
C20_Witness ==
  /\ pc = "discovered"
  /\ {aUpperMD, bTxt} \subseteq Range(fileSet.AssetFiles)
  /\ {aMarkdown, aMd, dCMd} \subseteq Range(fileSet.MarkdownFiles)

\* The output path of a discovered input as the specification derives it.
DerivedOutput(p) ==
  IF p \in Range(fileSet.MarkdownFiles) THEN [p EXCEPT !.ext = ".html"] ELSE p

WrittenBy(p) == IF p \in Range(fileSet.MarkdownFiles) THEN Rendered(input[p]) ELSE Copied(input[p])

\* C21: for every discovered document the output path is its input-relative
\* path with the extension replaced by ".html", for every asset it is the
\* input-relative path unchanged; the file the processor writes, the output
\* path the Incremental strategy records in its cache, the output path the
\* Full strategy records, and the path the Full cleanup treats as expected
\* are all this same path.
C21_OutputPathDerivation ==
  \A p \in Discovered(fileSet) :
     LET q == DerivedOutput(p)
     IN /\ OutputOf(p) = q
        /\ p \in processed =>
              \/ \E x \in processed : DerivedOutput(x) = q /\ out[q] = WrittenBy(x)
              \/ q \in removed
              \/ (q = FeedPath /\ out[q].kind = "feed")
        /\ (strategy = "Incremental" /\ p \in DOMAIN ibNewCache.Files) =>
              ibNewCache.Files[p].Output = q
        /\ (strategy = "Full" /\ pc = "done") => cacheFile.Files[p].Output = q
        /\ (pc = "done" /\ p \in DOMAIN cacheFile.Files) => cacheFile.Files[p].Output = q
        /\ isExpectedFile(q, fileSet, FALSE)
        /\ \A r \in OutTree \ {q} :
              isExpectedFile(r, fileSet, FALSE) => \E x \in Discovered(fileSet) : DerivedOutput(x) = r

\* A build of a document in a directory and of two assets, one of them
\* a.MD (the upper-case extension is no document's), has saved its cache.
C21_Witness ==
  /\ pc = "done"
  /\ {dCMd, aUpperMD, bTxt} \subseteq processed
  /\ cacheFile.Files[dCMd].Output = In(Name("d", ""), Path("c", ".html"))

Draining == pc \in {"incDrain", "fullDrain"}

\* The drain loop waits for a result that no goroutine will ever send.
DrainBlocked ==
  /\ Draining
  /\ Len(printed) < Len(fileSet.MarkdownFiles)
  /\ sizeOut = <<>>
  /\ \A i \in DOMAIN tasks : tasks[i].state \in {"sent", "gone"}

\* The results delivered so far for document i.
Delivered(i) ==
  Cardinality({k \in 1..Len(sizeOut) : sizeOut[k].doc = i})
  + Cardinality({k \in 1..Len(printed) : printed[k].doc = i})

\* C22: in every build whose processing succeeds exactly one advisory result
\* is delivered for each discovered document, so the loop that receives
\* len(documents) results always completes: no interleaving of the
\* goroutines with the main sequence leaves the build blocked in the drain,
\* and once the drain is over every document has had its one result.
C22_AdvisoryDrainTerminates ==
  /\ ~DrainBlocked
  /\ pc \in {"incFeed", "fullFeed", "incSave", "fullCleanup", "fullSave", "done"} =>
        \A i \in 1..Len(fileSet.MarkdownFiles) : Delivered(i) = 1

\* C23: advisory results are drained in discovery order: the i-th result
\* printed by the drain loop belongs to the i-th discovered document, for
\* every completion order of the goroutines.
C23_DrainedInDiscoveryOrder ==
  \A k \in 1..Len(printed) : printed[k].doc = k

\* C24: every non-empty advisory result that is drained names the output
\* path of the document whose goroutine produced it and reports the
\* compressed size of that document's output as written for that document,
\* whatever order the goroutines complete in.
C24_ResultsNameTheirDocument ==
  \A k \in 1..Len(printed) :
     printed[k] # EmptyMsg(printed[k].doc) =>
        LET p == fileSet.MarkdownFiles[printed[k].doc]
        IN /\ printed[k].path = DerivedOutput(p)
           /\ printed[k].size = gzipSize(Rendered(input[p]))

\* The main sequence, or a goroutine, is about to send on the channel.
MainMaySend == pc = "incMarkdown" /\ idx <= Len(fileSet.MarkdownFiles)

TaskMaySend == \E i \in DOMAIN tasks : tasks[i].state = "read"

\* C30: the result channel is buffered with capacity equal to the number of
\* discovered documents and at most one result is sent per document, so no
\* send, by a goroutine or by the main sequence for a skipped document,
\* ever finds the buffer full, also when the build aborts early and never
\* drains the channel.
C30_SendsNeverBlock ==
  /\ (MainMaySend \/ TaskMaySend) => Len(sizeOut) < ChanCap(fileSet)
  /\ \A i \in 1..Len(fileSet.MarkdownFiles) : Delivered(i) <= 1
  /\ \A i \in DOMAIN tasks : tasks[i].state = "sent" => Delivered(i) = 1

\* The build was aborted by its third document; the channel, never
\* drained, holds the results of the first two, one of a goroutine and one
\* of a skipped document.
C30_Witness ==
  /\ pc = "failed"
  /\ err = "markdown"
  /\ Len(sizeOut) = 2
  /\ \E k \in 1..2 : sizeOut[k] = EmptyMsg(sizeOut[k].doc)
  /\ \E i \in DOMAIN tasks : tasks[i].state = "sent"

\* What the cleanup of the running build is to delete.
CleanupTargets ==
  IF strategy = "Incremental"
  THEN RemovedOutputs(cache, seen)
  ELSE {q \in OutTree : IsOrphan(q, fileSet, opts.rss)}

AfterCleanup ==
  /\ ShouldCleanup(opts.keepOrphaned)
  /\ \/ strategy = "Incremental" /\ pc \in {"incFeed", "incSave", "done"}
     \/ strategy = "Full" /\ pc \in {"fullSave", "done"}

\* C25: a failure to delete an individual file, including deleting an
\* output that is already missing, never makes the build fail: the build
\* goes on with the remaining deletions (every target but those that cannot
\* be removed is gone afterwards, unless the feed is written there after
\* the Incremental cleanup) and still persists the new cache.
C25_CleanupBestEffort ==
  /\ err # "cleanup"
  /\ removed \cap stuck = {}
  /\ AfterCleanup =>
        \A q \in CleanupTargets \ stuck : ~Exists(out[q]) \/ out[q].kind = "feed"
  /\ pc = "done" => cacheFile = CreateCacheFromFileSet(fileSet, input)

\* An Incremental build has saved its cache although, of the outputs its
\* cleanup was to delete, one could not be removed and is still there and
\* one was missing already; another is gone.
C25_Witness ==
  /\ pc = "done"
  /\ strategy = "Incremental"
  /\ \E q \in CleanupTargets \cap stuck : Exists(out[q])
  /\ \E q \in CleanupTargets : ~Exists(pre.out[q])
  /\ removed \cap CleanupTargets # {}

\* Generate has just returned without an error.
AfterGenerate == pc \in {"incSave", "fullCleanup"}

\* The number of readable documents handed to Generate.
Readable == Len(collectItems(fileSet, input))

Min(a, b) == IF a < b THEN a ELSE b

ItemsWanted ==
  IF opts.rssMaxItems > 0 THEN Min(Readable, opts.rssMaxItems) ELSE Readable

\* C26 as stated: for n readable documents and a non-empty base URL Generate
\* writes a feed with exactly min(n, maxItems) items when maxItems > 0 and
\* exactly n items when maxItems = 0; with an empty base URL it writes no
\* feed and returns no error.
C26_ItemLimit ==
  /\ (AfterGenerate /\ opts.rss) =>
        out[FeedPath].kind = "feed" /\ Len(out[FeedPath].data) = ItemsWanted
  /\ (AfterGenerate /\ ~opts.rss) => out[FeedPath] = pre.out[FeedPath]
  /\ ~opts.rss => err # "rss"

\* C26 amended: the above for n >= 1; for n = 0 Generate writes no feed, as
\* with an empty base URL: a feed.xml that was there stays as it was, and
\* no error is returned.
C26_ItemLimitOfSomeItems ==
  /\ (AfterGenerate /\ opts.rss /\ Readable >= 1) =>
        out[FeedPath].kind = "feed" /\ Len(out[FeedPath].data) = ItemsWanted
  /\ (AfterGenerate /\ (~opts.rss \/ Readable = 0)) => out[FeedPath] = pre.out[FeedPath]
  /\ (~opts.rss \/ Readable = 0) => err # "rss"

\* Three documents and a limit of two: the feed holds the two newest.
C26_Witness ==
  /\ AfterGenerate
  /\ opts.rss
  /\ Readable = 3
  /\ opts.rssMaxItems = 2
  /\ Len(out[FeedPath].data) = 2
  /\ \E p \in RssDocs :
        /\ input[p].mtime = 1
        /\ \A k \in 1..2 : out[FeedPath].data[k] # p
        /\ \A k \in 1..2 : input[out[FeedPath].data[k]].mtime = MaxTime

\* The phases of a build in their order: validated and discovered (both by
\* the time pc = "discovered"), strategy chosen and files being processed,
\* reconciled, cache persisted, done.  The feed is written after the
\* cleanup in the Incremental strategy and before it in the Full strategy.
Rank(p) ==
  CASE p = "idle" -> 0
    [] p = "discovered" -> 1
    [] p \in {"incMarkdown", "fullAssets"} -> 2
    [] p \in {"incAssets", "fullMarkdown"} -> 3
    [] p \in {"incCleanup", "fullFeed"} -> 4
    [] p \in {"incFeed", "fullCleanup"} -> 5
    [] p \in {"incSave", "fullSave"} -> 6
    [] p = "done" -> 7
    [] OTHER -> 8

Saving == pc \in {"incSave", "fullSave"}

\* C27: in every build the phases occur in the order validated, discovered,
\* strategy chosen, all files processed, reconciled, cache persisted, done:
\* each step that does not fail or return moves to the next phase, none is
\* skipped or entered twice; the cache file is written only by the step
\* after processing and cleanup, which leaves the output tree alone, and
\* nothing in the output directory changes after it.
C27_PhaseOrder ==
  [][/\ (pc' # pc /\ pc' \notin {"failed", "idle"}) => Rank(pc') = Rank(pc) + 1
     /\ (pc # "idle" /\ cacheFile' # cacheFile) => Saving
     /\ Saving => out' = out
     /\ pc = "done" => (out' = out /\ cacheFile' = cacheFile /\ pc' = "idle")
     /\ pc' = "incCleanup" =>
           seen' = Discovered(fileSet) /\ DOMAIN ibNewCache'.Files = Discovered(fileSet)
     /\ pc' = "fullFeed" => processed' = Discovered(fileSet)]_vars

\* A build that rendered or copied files, deleted files, wrote the feed and
\* saved its cache is done.
C27_Witness ==
  /\ pc = "done"
  /\ processed # {}
  /\ removed # {}
  /\ out[FeedPath].kind = "feed"
  /\ cacheFile # pre.cache

\* The files the loops of the Full strategy have gone through.
FullLoopsDone ==
  IF pc = "fullAssets" THEN Before(fileSet.AssetFiles, idx)
  ELSE IF pc = "fullMarkdown"
       THEN Range(fileSet.AssetFiles) \cup Before(fileSet.MarkdownFiles, idx)
       ELSE Discovered(fileSet)

FullIterations ==
  IF pc = "fullAssets" THEN idx - 1
  ELSE IF pc = "fullMarkdown" THEN Len(fileSet.AssetFiles) + idx - 1
       ELSE Len(fileSet.AssetFiles) + Len(fileSet.MarkdownFiles)

\* C28: the Full strategy processes every discovered document and every
\* discovered asset exactly once, unconditionally: every iteration of its
\* loops has processed its file, a different file each, whatever the cache
\* file holds, whatever the modification times are and whether or not the
\* outputs exist already.
C28_FullProcessesEverything ==
  (strategy = "Full" /\ pc # "failed") =>
     /\ processed = FullLoopsDone
     /\ Cardinality(processed) = FullIterations

\* A Full build forced by no-incremental has processed a document and an
\* asset which the cache it found lists with their current modification
\* times and whose outputs were there already.
C28_Witness ==
  /\ strategy = "Full"
  /\ pc = "done"
  /\ opts.noIncremental
  /\ IsUsable(loadCache(pre.cache))
  /\ processed \cap Range(fileSet.MarkdownFiles) # {}
  /\ processed \cap Range(fileSet.AssetFiles) # {}
  /\ \A p \in processed :
        /\ ~NeedsProcessing(loadCache(pre.cache).cache, p, getMtime(input, p))
        /\ Exists(pre.out[OutputOf(p)])

\* C29: the old cache is read-only once loaded: during an Incremental build
\* the loaded cache stays what loadCache returned, and so does the cache
\* file until it is saved; the new entries go into a cache of their own,
\* which starts empty with version 1 and holds an entry for just the files
\* the build has gone through (the file that failed has none).
C29_LoadedCacheReadOnly ==
  strategy = "Incremental" =>
     /\ cache = loadCache(pre.cache).cache
     /\ pc \in {"incMarkdown", "incAssets", "incCleanup", "incFeed", "incSave"} =>
           cacheFile = pre.cache
     /\ ibNewCache.Version = 1
     /\ DOMAIN ibNewCache.Files \subseteq seen
     /\ pc # "failed" => DOMAIN ibNewCache.Files = seen
     /\ \A p \in DOMAIN ibNewCache.Files :
           ibNewCache.Files[p] = cacheFileEntry(getMtime(input, p), OutputOf(p))

\* An Incremental build is done whose loaded cache has an entry for a file
\* that vanished and an entry for a file that changed: the loaded cache
\* still has both as they were, the new cache has neither.
C29_Witness ==
  /\ strategy = "Incremental"
  /\ pc = "done"
  /\ cacheFile = ibNewCache
  /\ \E p \in DOMAIN cache.Files : p \notin DOMAIN ibNewCache.Files
  /\ \E p \in DOMAIN cache.Files \cap DOMAIN ibNewCache.Files :
        cache.Files[p] # ibNewCache.Files[p]
  /\ cache = pre.cache

\* The goroutine of document i has been started and has yet to read its file.
Unread(i) == i \in DOMAIN tasks /\ tasks[i].state = "spawned"

\* C31: the goroutines share no mutable state with the main build sequence:
\* from the moment a goroutine is started until it has read its output file
\* no step of the main sequence (the processing of another input, the
\* cleanup) overwrites or deletes that file, so what a goroutine reads, and
\* with it its result, is what was written for its document whatever the
\* interleaving.
C31_TasksShareNoState ==
  [][\A i \in 1..Len(fileSet.MarkdownFiles) :
        Unread(i) => out'[tasks[i].path] = out[tasks[i].path]]_vars

\* The file the loop that failed was at.
FailedFile ==
  IF err = "markdown" THEN fileSet.MarkdownFiles[idx] ELSE fileSet.AssetFiles[idx]

\* C32: every processing failure the build returns names the input-relative
\* path of the file that failed: a document that cannot be read or
\* converted, whose output directory cannot be created or whose output
\* cannot be written, and an asset that cannot be copied, in the
\* Incremental and in the Full strategy.
C32_FailureNamesTheFile ==
  (pc = "failed" /\ err \in {"markdown", "asset"}) =>
     /\ errMsg.path = FailedFile
     /\ errMsg.path \in Discovered(fileSet)
     /\ err = "markdown" =>
           errMsg \in {MarkdownError(cause, FailedFile) : cause \in MarkdownFailures}
     /\ err = "asset" => errMsg.text = "failed to copy asset"

\* An Incremental build that had rendered a document already failed to copy
\* an asset, and its error names that asset.
C32_Witness ==
  /\ pc = "failed"
  /\ strategy = "Incremental"
  /\ err = "asset"
  /\ errMsg.path = bTxt
  /\ processed \cap Range(fileSet.MarkdownFiles) # {}

\* The document the running markdown loop has just rendered.
JustRendered ==
  /\ pc \in {"incMarkdown", "fullMarkdown"}
  /\ idx > 1
  /\ fileSet.MarkdownFiles[idx - 1] \in processed

\* C33: the templating step never fails a build: whatever has become of the
\* template, a document that was read and converted is written, and when
\* the template cannot be resolved, parsed or executed what is written is
\* the converted HTML exactly as renderHTMLPage was given it; the only
\* errors a document produces are those of reading, converting, creating
\* the output directory and writing.
C33_TemplateNeverFails ==
  /\ JustRendered =>
        LET p == fileSet.MarkdownFiles[idx - 1]
        IN /\ Exists(out[MarkdownDst(p)])
           /\ template # "ok" => out[MarkdownDst(p)] = Converted(input[p])
           /\ template = "ok" => out[MarkdownDst(p)] = Page(Converted(input[p]))
  /\ err = "markdown" =>
        errMsg.text \in {"failed to read markdown file", "failed to convert markdown",
                         "failed to create output dir for", "failed to write HTML file"}

\* With a template whose execution fails a build has rendered two documents
\* and is done: both pages hold the converted HTML alone.
C33_Witness ==
  /\ template = "failing"
  /\ pc = "done"
  /\ processed = {aMd, dCMd}
  /\ out[HtmlPath(aMd)] = Converted(input[aMd])
  /\ out[HtmlPath(dCMd)] = Converted(input[dCMd])
  /\ input[aMd].data # input[dCMd].data

\* What an input's output holds once the input has been processed.
OutputFor(p) ==
  IF p \in Range(fileSet.MarkdownFiles) THEN Rendered(input[p]) ELSE Copied(input[p])

\* C34: distinct discovered inputs never share an output path: the
\* derivation of output paths is injective over the FileSet discovery
\* returned, so no output file is written by two inputs of one build, and
\* while the files are processed every output written so far holds what
\* its own input produced, whatever the order of processing.
C34_OutputPathsInjective ==
  /\ \A p, r \in Discovered(fileSet) : p # r => DerivedOutput(p) # DerivedOutput(r)
  /\ pc \in {"incMarkdown", "incAssets", "fullAssets", "fullMarkdown"} =>
        \A p \in processed : out[DerivedOutput(p)] = OutputFor(p)

\* The modification time of the input content an output was made from: in
\* LiveSpec content v1 has time 1 and content v2 has time MaxTime.
ContentTime(f) == IF f.data = "v1" THEN 1 ELSE MaxTime

\* The next Incremental build would skip p.
WouldSkip(p) == ~NeedsProcessing(cacheFile, p, getMtime(input, p))

\* C35: no lost update: once a build has saved its cache, the modification
\* time recorded for an input is never newer than that of the content that
\* was rendered or copied into its output, so an input that was modified
\* at any moment while the build ran is not skipped by the next
\* Incremental build unless its output holds the modified content.
C35_NoLostUpdate ==
  (pc = "done" /\ cacheFile.kind = "json") =>
     \A p \in DOMAIN cacheFile.Files :
        Exists(out[DerivedOutput(p)]) =>
           /\ cacheFile.Files[p].Mtime <= ContentTime(out[DerivedOutput(p)])
           /\ WouldSkip(p) => out[DerivedOutput(p)] = OutputFor(p)

\* C36: after any successful build without keep-orphaned, in either
\* strategy and whatever builds came before (builds with keep-orphaned
\* among them), the output tree holds no orphan: every regular file that is
\* not dot-named, not the cache file and not the feed file is the derived
\* output of an input the build discovered.
C36_NoOrphansAfterCleanBuild ==
  (pc = "done" /\ ~opts.keepOrphaned) =>
     \A q \in OutTree :
        (Exists(out[q]) /\ ~DotNamed(q) /\ q # FeedPath) =>
           \E p \in Discovered(fileSet) : q = DerivedOutput(p)

\* The running build follows a successful build, the cache file untouched
\* since: the first build of RetrySpec follows the build that left its
\* initial state, the second follows the first.
FollowsSuccess == builds = 1 \/ hist.quiet

\* C37: every successful build leaves a cache file that loads and has
\* version 1, so the build that follows a successful build, run without
\* no-incremental and with the cache file untouched, takes the Incremental
\* strategy; where a cache was written before, the Full strategy is taken
\* only when it is forced or after a build whose cache write failed.
C37_SuccessLeadsToIncremental ==
  /\ pc = "done" => IsUsable(loadCache(cacheFile))
  /\ (Chosen /\ FollowsSuccess /\ ~opts.noIncremental) => strategy = "Incremental"
  /\ (Chosen /\ strategy = "Full") =>
        \/ opts.noIncremental
        \/ ~FollowsSuccess /\ pre.cache = BrokenCache("garbage")

\* An Incremental build that follows a successful forced Full build of the
\* same tree is done: it found every file unchanged.
C37_Witness ==
  /\ pc = "done"
  /\ builds = MaxBuilds
  /\ hist.quiet
  /\ hist.opts.noIncremental
  /\ strategy = "Incremental"
  /\ Discovered(fileSet) # {}
  /\ processed = {}
  /\ CacheValid(cacheFile)

\* filepath.Join(outputDir, q) stays below outputDir.
UnderRoot(q) == q.dir = <<>> \/ q.dir[1] # Parent

\* The paths the cleanup of the running Incremental build hands to os.Remove.
IncRemovals == RemovedOutputs(cache, seen)

\* C38: the Incremental cleanup only deletes files inside the output
\* directory and never deletes the cache file: for every version-1 cache
\* that loads, whatever output paths its entries record, every path the
\* cleanup removes lies under the output root and is not .colade-cache,
\* and the cache file is, after the cleanup, as the build found it.
C38_CleanupStaysInside ==
  /\ (pc = "incCleanup" /\ ShouldCleanup(opts.keepOrphaned)) =>
        \A q \in IncRemovals : UnderRoot(q) /\ q # CachePath
  /\ (strategy = "Incremental" /\ pc \in {"incFeed", "incSave"}) => cacheFile = pre.cache

====
